---------------------------- MODULE Spec2Model ----------------------------
(***************************************************************************)
(* Result-aggregation engine of the landing page: the steps-to-target      *)
(* summary (collect_hide_label_stats), the Open Race trajectory averaging  *)
(* (collect_open_race_histories) and the store built by main, all of       *)
(* src/landing_page/process_official_results.py; the same store as         *)
(* generate_data.py builds it (generate_data_files); main of               *)
(* process_results.py (Hide-the-Label recombination, Open Race summary).   *)
(*                                                                         *)
(* A parsed JSON document is a tagged value:                               *)
(*   [k |-> "null"], [k |-> "num", v |-> Int], [k |-> "float", v |-> float],*)
(*   [k |-> "bool", v |-> BOOLEAN], [k |-> "str", v |-> STRING],           *)
(*   [k |-> "list", v |-> sequence], [k |-> "map", v |-> function].        *)
(* A Python float is the exact rational [num, den] in lowest terms, with   *)
(* den = 0 for inf, -inf and nan; the rounding of the binary               *)
(* representation is not represented.                                      *)
(* A call that ends in a Python exception yields RAISE.                    *)
(***************************************************************************)
EXTENDS Integers, Sequences, FiniteSets, TLC

VARIABLES
    data,             \* the document handed to the aggregator (json.load's result)
    race_type,        \* "Hide_The_Label" or "Open_Race"
    results,          \* what the aggregator returned (or RAISE, or PENDING)
    pc,               \* position of the caller
    playground_data,  \* the store (all_data): coordinate -> optimizer -> aggregate
    processed,        \* history: the files the run has gone through, with their outcome
    argsort_stable,   \* the build's np.argsort order of equal steps (see np_argsort)
    htl_dirs,         \* process_results.main: the files of each Hide-the-Label directory
    all_htl_steps,    \* process_results.main: optimizer -> the values recombined so far
    htl_summary,      \* process_results.main: the recalculated summary (saved by SaveHtl)
    first_run,        \* the files and the store of an earlier, completed run of main
    or_dirs,          \* process_results.main: the files of each Open Race directory
    or_summary        \* process_results.main: aggregate_open_race_histories' result

vars == <<data, race_type, results, pc, playground_data, processed, argsort_stable,
          htl_dirs, all_htl_steps, htl_summary, first_run, or_dirs, or_summary>>

(***************************** JSON values ********************************)
Null == [k |-> "null"]
Num(n) == [k |-> "num", v |-> n]
Str(s) == [k |-> "str", v |-> s]
List(s) == [k |-> "list", v |-> s]
Map(f) == [k |-> "map", v |-> f]
Bool(b) == [k |-> "bool", v |-> b]
FloatValue(x) == [k |-> "float", v |-> x]
EmptyMap == Map(<<>>)
EmptyList == List(<<>>)

RAISE == [k |-> "raise"]
PENDING == [k |-> "pending"]
Ok(x) == [k |-> "ok", v |-> x]

IsNull(x) == x.k = "null"
IsMap(x) == x.k = "map"
IsList(x) == x.k = "list"
IsNum(x) == x.k \in {"num", "float", "bool"}

\* dict.get(key, default); the receiver is a dict
Get(m, key, default) == IF key \in DOMAIN m.v THEN m.v[key] ELSE default

\* the i-th character of a str, and `sub in s` of two str
Char(s, i) == SubSeq(s, i, i)
Substring(sub, s) ==
    \E i \in 1..(Len(s) - Len(sub) + 1) : SubSeq(s, i, i + Len(sub) - 1) = sub

\* Python's `key in x`: dict keys, list elements, substring of a str;
\* None, numbers and booleans raise TypeError (InRaises).
InRaises(x) == x.k \in {"null", "num", "float", "bool"}
In(key, x) ==
    CASE x.k = "map" -> key \in DOMAIN x.v
      [] x.k = "list" -> \E i \in DOMAIN x.v : x.v[i].k = "str" /\ x.v[i].v = key
      [] x.k = "str" -> Substring(key, x.v)
      [] OTHER -> FALSE

\* Python truthiness (`not x`, `x or y`)
Truthy(x) ==
    CASE x.k = "null" -> FALSE
      [] x.k = "num" -> x.v # 0
      [] x.k = "float" -> ~(x.v.num = 0 /\ x.v.den # 0)
      [] x.k = "bool" -> x.v
      [] x.k = "str" -> x.v # ""
      [] x.k = "list" -> Len(x.v) > 0
      [] x.k = "map" -> DOMAIN x.v # {}
      [] OTHER -> TRUE

RECURSIVE SetToSeq(_)
SetToSeq(S) == IF S = {} THEN <<>>
               ELSE LET e == CHOOSE e \in S : TRUE IN <<e>> \o SetToSeq(S \ {e})

\* `for e in x`: a list yields its elements, a dict its keys, a str its
\* characters; None, numbers and booleans raise.
Iterable(x) == x.k \in {"list", "map", "str"}
Items(x) ==
    CASE x.k = "list" -> x.v
      [] x.k = "map" -> [i \in 1..Cardinality(DOMAIN x.v) |-> Str(SetToSeq(DOMAIN x.v)[i])]
      [] x.k = "str" -> [i \in 1..Len(x.v) |-> Str(Char(x.v, i))]
      [] OTHER -> <<>>

(***************************** numbers ************************************)
Abs(n) == IF n < 0 THEN -n ELSE n
Sign(n) == IF n < 0 THEN -1 ELSE IF n > 0 THEN 1 ELSE 0

RECURSIVE GCD(_, _)
GCD(a, b) == IF b = 0 THEN a ELSE GCD(b, a % b)

RECURSIVE Pow10(_)
Pow10(n) == IF n = 0 THEN 1 ELSE 10 * Pow10(n - 1)

\* the rational n/d (d > 0) in lowest terms; d = 0 holds the values that are
\* not finite: inf (1/0), -inf (-1/0) and nan (0/0)
Rat(n, d) == IF d = 0 THEN [num |-> Sign(n), den |-> 0]
             ELSE LET g == GCD(Abs(n), d) IN [num |-> n \div g, den |-> d \div g]
Float(n) == Rat(n, 1)
Inf == Rat(1, 0)
NaN == Rat(0, 0)
IsNaN(a) == a.den = 0 /\ a.num = 0
IsFinite(a) == a.den # 0
RatNeg(a) == [num |-> -a.num, den |-> a.den]
\* -1, 0, 1 for -inf, a finite value, inf
Rank(a) == IF a.den = 0 THEN a.num ELSE 0
RatLeq(a, b) ==
    /\ ~IsNaN(a) /\ ~IsNaN(b)
    /\ IF IsFinite(a) /\ IsFinite(b) THEN a.num * b.den <= b.num * a.den
       ELSE Rank(a) <= Rank(b)
RatLess(a, b) ==
    /\ ~IsNaN(a) /\ ~IsNaN(b)
    /\ IF IsFinite(a) /\ IsFinite(b) THEN a.num * b.den < b.num * a.den
       ELSE Rank(a) < Rank(b)
RatAdd(a, b) ==
    IF IsFinite(a) /\ IsFinite(b)
    THEN LET g == GCD(a.den, b.den)
         IN Rat(a.num * (b.den \div g) + b.num * (a.den \div g), (a.den \div g) * b.den)
    ELSE IF ~IsFinite(a) /\ ~IsFinite(b) THEN (IF a.num = b.num THEN a ELSE NaN)
    ELSE IF ~IsFinite(a) THEN a ELSE b

RECURSIVE RatSum(_)
RatSum(s) == IF s = <<>> THEN Float(0) ELSE RatAdd(Head(s), RatSum(Tail(s)))

(************************ float(x) and int(x) *****************************)
\* The numerals Python reads from a str: surrounding whitespace is dropped,
\* then an optional sign and
\*   int:   digits
\*   float: digits[.[digits]] or .digits, an optional exponent e[sign]digits,
\*          or inf, infinity, nan in any letter case
\* where digits may hold single underscores between two digits.  A str of the
\* model holds characters up to code point 255: among them the whitespace of
\* float() and int() is space, \t, \n, \r, \f, vertical tab (0x0b), next
\* line (0x85) and no-break space (0xa0), and the decimal digits are 0-9.
Whitespace == {" ", "\t", "\n", "\r", "\f", "", "", " "}
DigitChars == <<"0", "1", "2", "3", "4", "5", "6", "7", "8", "9">>
IsDigit(c) == \E d \in 1..10 : DigitChars[d] = c
DigitOf(c) == (CHOOSE d \in 1..10 : DigitChars[d] = c) - 1

RECURSIVE LStrip(_)
LStrip(s) == IF Len(s) > 0 /\ Char(s, 1) \in Whitespace
             THEN LStrip(SubSeq(s, 2, Len(s))) ELSE s
RECURSIVE RStrip(_)
RStrip(s) == IF Len(s) > 0 /\ Char(s, Len(s)) \in Whitespace
             THEN RStrip(SubSeq(s, 1, Len(s) - 1)) ELSE s
Strip(s) == RStrip(LStrip(s))

HasSign(s) == Len(s) > 0 /\ Char(s, 1) \in {"+", "-"}
Unsigned(s) == IF HasSign(s) THEN SubSeq(s, 2, Len(s)) ELSE s
Negative(s) == Len(s) > 0 /\ Char(s, 1) = "-"

\* digit (["_"] digit)*
DigitPart(s) ==
    /\ Len(s) > 0
    /\ \A i \in 1..Len(s) : IsDigit(Char(s, i)) \/ Char(s, i) = "_"
    /\ IsDigit(Char(s, 1)) /\ IsDigit(Char(s, Len(s)))
    /\ \A i \in 1..(Len(s) - 1) : ~(Char(s, i) = "_" /\ Char(s, i + 1) = "_")

RECURSIVE DigitsValue(_)
DigitsValue(s) ==
    IF Len(s) = 0 THEN 0
    ELSE LET init == DigitsValue(SubSeq(s, 1, Len(s) - 1))
             c == Char(s, Len(s))
         IN IF c = "_" THEN init ELSE 10 * init + DigitOf(c)

RECURSIVE CountDigits(_)
CountDigits(s) ==
    IF Len(s) = 0 THEN 0
    ELSE CountDigits(SubSeq(s, 2, Len(s))) + (IF Char(s, 1) = "_" THEN 0 ELSE 1)

\* the position of the first character of s that is in C (0: none)
FirstOf(s, C) ==
    IF \E i \in 1..Len(s) : Char(s, i) \in C
    THEN CHOOSE i \in 1..Len(s) :
             Char(s, i) \in C /\ \A j \in 1..(i - 1) : Char(s, j) \notin C
    ELSE 0

UpperChars == <<"A", "F", "I", "N", "T", "Y">>
LowerChars == <<"a", "f", "i", "n", "t", "y">>
LowerChar(c) == IF \E i \in 1..6 : UpperChars[i] = c
                THEN LowerChars[CHOOSE i \in 1..6 : UpperChars[i] = c] ELSE c
RECURSIVE Lower(_)
Lower(s) == IF Len(s) = 0 THEN s ELSE LowerChar(Char(s, 1)) \o Lower(SubSeq(s, 2, Len(s)))

\* the digits of a signed numeral, as an integer
SignedDigits(t) == IF Negative(t) THEN -DigitsValue(Unsigned(t)) ELSE DigitsValue(Unsigned(t))

IntNumeral(s) == DigitPart(Unsigned(Strip(s)))
IntOfStr(s) == SignedDigits(Strip(s))

\* s up to position i, and s after it (i = 0: all of s, and nothing)
UpTo(s, i) == IF i = 0 THEN s ELSE SubSeq(s, 1, i - 1)
Beyond(s, i) == IF i = 0 THEN "" ELSE SubSeq(s, i + 1, Len(s))

Mantissa(body) == UpTo(body, FirstOf(body, {"e", "E"}))
HasExponent(body) == FirstOf(body, {"e", "E"}) # 0
Exponent(body) == Beyond(body, FirstOf(body, {"e", "E"}))
IntegerPart(m) == UpTo(m, FirstOf(m, {"."}))
FractionPart(m) == Beyond(m, FirstOf(m, {"."}))

PartsOk(int_part, fraction) ==
    /\ int_part = "" \/ DigitPart(int_part)
    /\ fraction = "" \/ DigitPart(fraction)
    /\ ~(int_part = "" /\ fraction = "")
MantissaOk(m) ==
    IF FirstOf(m, {"."}) = 0 THEN DigitPart(m) ELSE PartsOk(IntegerPart(m), FractionPart(m))
ExponentOk(body) == HasExponent(body) => DigitPart(Unsigned(Exponent(body)))

NotFinite(body) == Lower(body) \in {"inf", "infinity", "nan"}
FloatBody(body) == NotFinite(body) \/ (MantissaOk(Mantissa(body)) /\ ExponentOk(body))
FloatNumeral(s) == FloatBody(Unsigned(Strip(s)))

\* digits / scale * 10^exp
Scaled(digits, scale, exp) ==
    IF digits = 0 THEN Float(0)
    ELSE IF exp >= 0 THEN Rat(digits * Pow10(exp), scale)
    ELSE Rat(digits, scale * Pow10(-exp))
MantissaValue(int_part, fraction, exp) ==
    Scaled(DigitsValue(int_part) * Pow10(CountDigits(fraction)) + DigitsValue(fraction),
           Pow10(CountDigits(fraction)), exp)
NotFiniteValue(lower) == IF lower = "nan" THEN NaN ELSE Inf
AbsValue(body) ==
    IF NotFinite(body) THEN NotFiniteValue(Lower(body))
    ELSE MantissaValue(IntegerPart(Mantissa(body)), FractionPart(Mantissa(body)),
                       SignedDigits(Exponent(body)))
WithSign(negative, abs) == IF negative THEN RatNeg(abs) ELSE abs
SignedValue(t) == WithSign(Negative(t), AbsValue(Unsigned(t)))
FloatOfStr(s) == SignedValue(Strip(s))

\* the value of a number (int, float, bool) in arithmetic and comparisons
Number(x) ==
    CASE x.k = "num" -> Float(x.v)
      [] x.k = "float" -> x.v
      [] x.k = "bool" -> Float(IF x.v THEN 1 ELSE 0)

\* float(x) of a JSON value: numbers and booleans convert, a str converts
\* when it is a numeral (ValueError otherwise), lists, dicts and None raise
\* TypeError.
FloatOk(x) ==
    CASE x.k \in {"num", "float", "bool"} -> TRUE
      [] x.k = "str" -> FloatNumeral(x.v)
      [] OTHER -> FALSE
ToFloat(x) == IF x.k = "str" THEN FloatOfStr(x.v) ELSE Number(x)

\* int(x) of a JSON value: an int is itself, a float is cut towards zero
\* (nan: ValueError, inf: OverflowError), a str converts when it is an
\* integer numeral, lists, dicts and None raise TypeError.
IntOk(x) ==
    CASE x.k \in {"num", "bool"} -> TRUE
      [] x.k = "float" -> IsFinite(x.v)
      [] x.k = "str" -> IntNumeral(x.v)
      [] OTHER -> FALSE
ToInt(x) ==
    CASE x.k = "num" -> x.v
      [] x.k = "float" -> Sign(x.v.num) * (Abs(x.v.num) \div x.v.den)
      [] x.k = "bool" -> IF x.v THEN 1 ELSE 0
      [] x.k = "str" -> IntOfStr(x.v)

(***************************** aggregates *********************************)
\* np.mean, np.min, np.max, np.median of a non-empty list of floats (a nan
\* among them makes each of the four nan)
HasNaN(s) == \E i \in DOMAIN s : IsNaN(s[i])
np_mean(s) == LET t == RatSum(s) IN Rat(t.num, t.den * Len(s))
np_min(s) == IF HasNaN(s) THEN NaN
             ELSE s[CHOOSE i \in DOMAIN s : \A j \in DOMAIN s : RatLeq(s[i], s[j])]
np_max(s) == IF HasNaN(s) THEN NaN
             ELSE s[CHOOSE i \in DOMAIN s : \A j \in DOMAIN s : RatLeq(s[j], s[i])]

\* insertion of x into the ascending sequence s, after the elements equal to it
RECURSIVE InsertSorted(_, _)
InsertSorted(x, s) ==
    IF s = <<>> THEN <<x>>
    ELSE IF RatLess(x, Head(s)) THEN <<x>> \o s
    ELSE <<Head(s)>> \o InsertSorted(x, Tail(s))

RECURSIVE SortFloats(_)
SortFloats(s) == IF s = <<>> THEN <<>>
                 ELSE InsertSorted(s[Len(s)], SortFloats(SubSeq(s, 1, Len(s) - 1)))

np_medianNotHalved(s) ==
    LET t == SortFloats(s)
        n == Len(s)
    IN IF HasNaN(s) THEN NaN
       ELSE IF n % 2 = 1 THEN t[(n + 1) \div 2] ELSE RatAdd(t[n \div 2], t[n \div 2 + 1])

np_median(s) ==
    LET t == SortFloats(s)
        n == Len(s)
    IN IF HasNaN(s) THEN NaN
       ELSE IF n % 2 = 1 THEN t[(n + 1) \div 2]
       ELSE LET m == RatAdd(t[n \div 2], t[n \div 2 + 1]) IN Rat(m.num, m.den * 2)

\* s[1] \o s[2] \o ... for a sequence of sequences
RECURSIVE Flatten(_)
Flatten(s) == IF s = <<>> THEN <<>> ELSE Head(s) \o Flatten(Tail(s))


(******************** collect_hide_label_stats ****************************)
\* One entry of optimizer_results: `steps = res.get("steps_to_target")`,
\* appended as float(steps) when it is not None.
ResultFails(res) ==
    ~IsMap(res) \/
    LET steps == Get(res, "steps_to_target", Null)
    IN ~IsNull(steps) /\ ~FloatOk(steps)

ResultStepsNullAsZero(res) ==
    LET steps == Get(res, "steps_to_target", Null)
    IN IF IsNull(steps) THEN <<Float(0)>> ELSE <<ToFloat(steps)>>

ResultSteps(res) ==
    LET steps == Get(res, "steps_to_target", Null)
    IN IF ~IsNull(steps) THEN <<ToFloat(steps)>> ELSE <<>>

\* One competition: `for name, res in comp.get("optimizer_results", {}).items()`
CompetitionFails(comp) ==
    ~IsMap(comp) \/
    LET opt_res == Get(comp, "optimizer_results", EmptyMap)
    IN ~IsMap(opt_res) \/ \E name \in DOMAIN opt_res.v : ResultFails(opt_res.v[name])

CompetitionNames(comp) == DOMAIN Get(comp, "optimizer_results", EmptyMap).v

CompetitionSteps(comp, name) ==
    LET opt_res == Get(comp, "optimizer_results", EmptyMap)
    IN IF name \in DOMAIN opt_res.v THEN ResultSteps(opt_res.v[name]) ELSE <<>>

\* One tournament: `for comp in tournament.get("competitions", [])`
TournamentFails(tournament) ==
    ~IsMap(tournament) \/
    LET competitions == Get(tournament, "competitions", EmptyList)
    IN ~Iterable(competitions) \/
       \E i \in DOMAIN Items(competitions) : CompetitionFails(Items(competitions)[i])

TournamentNames(tournament) ==
    LET competitions == Items(Get(tournament, "competitions", EmptyList))
    IN UNION {CompetitionNames(competitions[i]) : i \in DOMAIN competitions}

TournamentSteps(tournament, name) ==
    LET competitions == Items(Get(tournament, "competitions", EmptyList))
    IN Flatten([i \in DOMAIN competitions |-> CompetitionSteps(competitions[i], name)])

\* `for tournament in tournaments`: the loop shared by the four tournament
\* branches; the values appended to steps_by_opt[name], in document order.
TournamentsFail(tournaments) ==
    ~Iterable(tournaments) \/
    \E i \in DOMAIN Items(tournaments) : TournamentFails(Items(tournaments)[i])

TournamentsNames(tournaments) ==
    UNION {TournamentNames(Items(tournaments)[i]) : i \in DOMAIN Items(tournaments)}

TournamentsSteps(tournaments, name) ==
    Flatten([i \in DOMAIN Items(tournaments) |-> TournamentSteps(Items(tournaments)[i], name)])

\* The compiled-analysis branch: one value per item and optimizer, the
\* item's optimizer_stats[opt]["mean_steps"] when it is not None.
StatsFails(stats) ==
    ~IsMap(stats) \/
    LET mean_steps == Get(stats, "mean_steps", Null)
    IN ~IsNull(mean_steps) /\ ~FloatOk(mean_steps)

ItemFails(item) ==
    ~IsMap(item) \/
    LET item_data == Get(item, "data", EmptyMap)
    IN ~IsMap(item_data) \/
       LET optimizer_stats == Get(item_data, "optimizer_stats", EmptyMap)
       IN ~IsMap(optimizer_stats) \/
          \E opt_name \in DOMAIN optimizer_stats.v : StatsFails(optimizer_stats.v[opt_name])

ItemStats(item) == Get(Get(item, "data", EmptyMap), "optimizer_stats", EmptyMap)

ItemStepsEveryStat(item, opt_name) ==
    IF opt_name \in DOMAIN ItemStats(item).v
    THEN LET stats == ItemStats(item).v[opt_name]
             present == {f \in {"mean_steps", "median_steps"} : ~IsNull(Get(stats, f, Null))}
         IN [i \in 1..Cardinality(present) |-> ToFloat(stats.v[SetToSeq(present)[i]])]
    ELSE <<>>

ItemSteps(item, opt_name) ==
    IF opt_name \in DOMAIN ItemStats(item).v
    THEN LET mean_steps == Get(ItemStats(item).v[opt_name], "mean_steps", Null)
         IN IF ~IsNull(mean_steps) THEN <<ToFloat(mean_steps)>> ELSE <<>>
    ELSE <<>>

AnalysisFails(items) ==
    ~Iterable(items) \/ \E i \in DOMAIN Items(items) : ItemFails(Items(items)[i])

AnalysisNames(items) ==
    UNION {DOMAIN ItemStats(Items(items)[i]).v : i \in DOMAIN Items(items)}

AnalysisSteps(items, opt_name) ==
    Flatten([i \in DOMAIN Items(items) |-> ItemSteps(Items(items)[i], opt_name)])

\* Which branch of the if/elif chain takes the document ("raise": a
\* membership test on None or a number raised TypeError).
HideLabelShapeListFirst(d) ==
    IF Get(d, "type", Null).k = "str" /\ Get(d, "type", Null).v = "analysis"
       /\ "items" \in DOMAIN d.v
    THEN "analysis"
    ELSE IF "all_tournament_results" \in DOMAIN d.v THEN "all_tournament_results"
    ELSE IF "results" \notin DOMAIN d.v THEN "tournament_results"
    ELSE IF InRaises(d.v["results"]) THEN "raise"
    ELSE IF In("tournament_results", d.v["results"]) THEN "results.tournament_results"
    ELSE IF In("all_tournament_results", d.v["results"]) THEN "results.all_tournament_results"
    ELSE "tournament_results"

HideLabelShape(d) ==
    IF Get(d, "type", Null).k = "str" /\ Get(d, "type", Null).v = "analysis"
       /\ "items" \in DOMAIN d.v
    THEN "analysis"
    ELSE IF "all_tournament_results" \in DOMAIN d.v THEN "all_tournament_results"
    ELSE IF "results" \notin DOMAIN d.v THEN "tournament_results"
    ELSE IF InRaises(d.v["results"]) THEN "raise"
    ELSE IF In("all_tournament_results", d.v["results"]) THEN "results.all_tournament_results"
    ELSE IF In("tournament_results", d.v["results"]) THEN "results.tournament_results"
    ELSE "tournament_results"

\* The fallback branch's tournaments: data.get("tournament_results", []),
\* [data] when that is falsy, wrapped in a list when it is not one.
FallbackTournaments(d) ==
    LET tournaments == Get(d, "tournament_results", EmptyList)
    IN IF ~Truthy(tournaments) THEN List(<<d>>)
       ELSE IF ~IsList(tournaments) THEN List(<<tournaments>>)
       ELSE tournaments

\* The tournaments the chosen branch iterates: Ok(list), RAISE when the
\* subscript data["results"][key] raises (data["results"] is a list or a
\* str), Ok([]) when results.tournament_results is not a list.
HideLabelTournaments(d) ==
    LET shape == HideLabelShape(d)
    IN CASE shape = "all_tournament_results" -> Ok(d.v["all_tournament_results"])
         [] shape = "results.all_tournament_results" ->
                IF IsMap(d.v["results"])
                THEN Ok(d.v["results"].v["all_tournament_results"]) ELSE RAISE
         [] shape = "results.tournament_results" ->
                IF IsMap(d.v["results"])
                THEN (IF IsList(d.v["results"].v["tournament_results"])
                      THEN Ok(d.v["results"].v["tournament_results"]) ELSE Ok(EmptyList))
                ELSE RAISE
         [] shape = "tournament_results" -> Ok(FallbackTournaments(d))
         [] OTHER -> RAISE

\* steps_by_opt after the chain: optimizer -> the floats appended (a key
\* exists only once a value was appended: defaultdict(list)).
steps_by_opt(d) ==
    IF HideLabelShape(d) = "analysis"
    THEN LET items == Get(d, "items", EmptyList)
             names == {n \in AnalysisNames(items) : AnalysisSteps(items, n) # <<>>}
         IN [n \in names |-> AnalysisSteps(items, n)]
    ELSE LET tournaments == HideLabelTournaments(d).v
             names == {n \in TournamentsNames(tournaments) :
                           TournamentsSteps(tournaments, n) # <<>>}
         IN [n \in names |-> TournamentsSteps(tournaments, n)]

\* data.get("type") on a document that is not a dict raises AttributeError
HideLabelFails(d) ==
    ~IsMap(d) \/
    IF HideLabelShape(d) = "analysis" THEN AnalysisFails(Get(d, "items", EmptyList))
    ELSE HideLabelTournaments(d) = RAISE \/ TournamentsFail(HideLabelTournaments(d).v)

\* The summary statistics of one optimizer's values
Summary(steps) ==
    [mean_steps |-> np_mean(steps), median_steps |-> np_median(steps),
     min_steps |-> np_min(steps), max_steps |-> np_max(steps), count |-> Len(steps)]

collect_hide_label_stats(d) ==
    IF HideLabelFails(d) THEN RAISE
    ELSE LET by_opt == steps_by_opt(d)
         IN Ok([opt \in {o \in DOMAIN by_opt : by_opt[o] # <<>>} |-> Summary(by_opt[opt])])


(******************** collect_open_race_histories *************************)
\* The tournament object whose competitions are read: Ok(value), or RAISE
\* when `"competitions" in data["results"]` raises (None, number, boolean).
TournamentResults(d) ==
    IF "results" \in DOMAIN d.v /\ InRaises(d.v["results"]) THEN RAISE
    ELSE IF "results" \in DOMAIN d.v /\ In("competitions", d.v["results"])
    THEN Ok(d.v["results"])
    ELSE IF IsList(Get(d, "competitions", Null)) THEN Ok(d)
    ELSE Ok(Get(d, "tournament_results", EmptyMap))

\* `best_value = record.get('best_value_so_far') or record.get('current_best')`
BestValue(record) ==
    IF Truthy(Get(record, "best_value_so_far", Null))
    THEN Get(record, "best_value_so_far", Null)
    ELSE Get(record, "current_best", Null)

RecordKept(record) ==
    ~IsNull(Get(record, "step", Null)) /\ ~IsNull(BestValue(record))

\* record.get on a non-dict, int(step) or float(best_value) raising
RecordFails(record) ==
    ~IsMap(record) \/
    (RecordKept(record) /\ (~IntOk(Get(record, "step", Null)) \/ ~FloatOk(BestValue(record))))

\* step_indices and best_values after the loop over history, in arrival order
Extracted(history) ==
    LET kept == SelectSeq(Items(history), RecordKept)
    IN [steps |-> [i \in DOMAIN kept |-> ToInt(kept[i].v["step"])],
        values |-> [i \in DOMAIN kept |-> ToFloat(BestValue(kept[i]))]]

\* np.argsort(step_indices): positions in ascending order of step. The default
\* kind (quicksort) does not fix the order of equal steps: `stable` is the
\* build's choice, arrival order (TRUE) or its reverse (FALSE).
Before(steps, i, j, stable) ==
    steps[i] < steps[j] \/ (steps[i] = steps[j] /\ IF stable THEN i < j ELSE i > j)

RECURSIVE InsertIndex(_, _, _, _)
InsertIndex(i, order, steps, stable) ==
    IF order = <<>> THEN <<i>>
    ELSE IF Before(steps, i, Head(order), stable) THEN <<i>> \o order
    ELSE <<Head(order)>> \o InsertIndex(i, Tail(order), steps, stable)

RECURSIVE ArgsortUpTo(_, _, _)
ArgsortUpTo(n, steps, stable) ==
    IF n = 0 THEN <<>>
    ELSE InsertIndex(n, ArgsortUpTo(n - 1, steps, stable), steps, stable)

np_argsort(steps, stable) == ArgsortUpTo(Len(steps), steps, stable)

\* "Ensure monotonic": best_values[i] = best_values[i-1] when it is smaller
RECURSIVE EnsureMonotonic(_)
EnsureMonotonicOff(values) == values

EnsureMonotonic(values) ==
    IF Len(values) <= 1 THEN values
    ELSE LET front == EnsureMonotonic(SubSeq(values, 1, Len(values) - 1))
             last == values[Len(values)]
         IN Append(front, IF RatLess(last, front[Len(front)]) THEN front[Len(front)] ELSE last)

\* One run (trial): the history sorted by step, then repaired
SortedRun(run, stable) ==
    LET order == np_argsort(run.steps, stable)
    IN [steps |-> [i \in DOMAIN order |-> run.steps[order[i]]],
        values |-> [i \in DOMAIN order |-> run.values[order[i]]]]

RepairedRun(run, stable) ==
    LET sorted == SortedRun(run, stable)
    IN [steps |-> sorted.steps, values |-> EnsureMonotonic(sorted.values)]

ResultHistory(result) == Get(result, "optimization_history", EmptyList)

RaceResultFails(result) ==
    ~IsMap(result) \/ ~Iterable(ResultHistory(result)) \/
    \E i \in DOMAIN Items(ResultHistory(result)) : RecordFails(Items(ResultHistory(result))[i])

RaceCompetitionFails(competition) ==
    ~IsMap(competition) \/
    LET optimizer_results == Get(competition, "optimizer_results", EmptyMap)
    IN ~IsMap(optimizer_results) \/
       \E name \in DOMAIN optimizer_results.v : RaceResultFails(optimizer_results.v[name])

\* The runs one competition appends for `name`: none when the optimizer is
\* not in it or no record was kept (`if step_indices:`)
CompetitionRunsKeepEmpty(competition, name, stable) ==
    LET optimizer_results == Get(competition, "optimizer_results", EmptyMap)
    IN IF name \notin DOMAIN optimizer_results.v THEN <<>>
       ELSE <<RepairedRun(Extracted(ResultHistory(optimizer_results.v[name])), stable)>>

CompetitionRuns(competition, name, stable) ==
    LET optimizer_results == Get(competition, "optimizer_results", EmptyMap)
    IN IF name \notin DOMAIN optimizer_results.v THEN <<>>
       ELSE LET run == Extracted(ResultHistory(optimizer_results.v[name]))
            IN IF run.steps = <<>> THEN <<>> ELSE <<RepairedRun(run, stable)>>

\* per_optimizer_histories: optimizer -> its runs, in competition order
per_optimizer_histories(competitions, stable) ==
    LET comps == Items(competitions)
        runs(name) == Flatten([i \in DOMAIN comps |-> CompetitionRuns(comps[i], name, stable)])
        names == {n \in UNION {CompetitionNames(comps[i]) : i \in DOMAIN comps} :
                      runs(n) # <<>>}
    IN [n \in names |-> runs(n)]

Last(s) == s[Len(s)]
MaxOf(S) == CHOOSE m \in S : \A x \in S : x <= m

\* max_step = max(run_steps[-1] ...) over the optimizer's runs
max_stepByLength(runs) == MaxOf({Len(runs[i].steps) : i \in DOMAIN runs})

max_step(runs) ==
    MaxOf({IF runs[i].steps # <<>> THEN Last(runs[i].steps) ELSE 0 : i \in DOMAIN runs})

\* zip(run_steps, run_values) stops at the end of the shorter list
ZipLen(run) ==
    IF Len(run.values) < Len(run.steps) THEN Len(run.values) ELSE Len(run.steps)

\* step_to_values[step].append(value) on a key outside range(max_step + 1)
StepKeyError(runs) ==
    \E i \in DOMAIN runs : \E j \in 1..ZipLen(runs[i]) :
        runs[i].steps[j] \notin 0..max_step(runs)

\* What one run appends to step_to_values[s]: its values recorded at s, and
\* its last value when s is past its last step (forward fill)
RunAt(run, s) ==
    LET at == SelectSeq([j \in 1..ZipLen(run) |-> <<run.steps[j], run.values[j]>>],
                        LAMBDA p : p[1] = s)
    IN [j \in DOMAIN at |-> at[j][2]] \o
       (IF run.steps # <<>> /\ s > Last(run.steps) THEN <<Last(run.values)>> ELSE <<>>)

step_to_values(runs) ==
    [s \in 0..max_step(runs) |-> Flatten([i \in DOMAIN runs |-> RunAt(runs[i], s)])]

\* float(np.mean(step_to_values[s])) if step_to_values[s] else 0.0
AggValueOverRuns(runs, s) ==
    LET at == step_to_values(runs)[s]
        t == RatSum(at)
    IN IF at = <<>> THEN Float(0) ELSE Rat(t.num, t.den * Len(runs))

AggValue(runs, s) ==
    IF step_to_values(runs)[s] # <<>> THEN np_mean(step_to_values(runs)[s]) ELSE Float(0)

\* {"steps": agg_steps, "values": agg_values}; position i holds step i - 1
Aggregated(runs) ==
    [steps |-> [i \in 1..(max_step(runs) + 1) |-> i - 1],
     values |-> [i \in 1..(max_step(runs) + 1) |-> AggValue(runs, i - 1)]]

\* a document that is not a dict raises at `"results" in data` (None, number),
\* at data["results"] or at data.get
RaceFails(d, stable) ==
    ~IsMap(d) \/ TournamentResults(d) = RAISE \/
    LET tournament_results == TournamentResults(d).v
    IN ~IsMap(tournament_results) \/
       LET competitions == Get(tournament_results, "competitions", EmptyList)
       IN Truthy(competitions) /\
          (~Iterable(competitions) \/
           (\E i \in DOMAIN Items(competitions) : RaceCompetitionFails(Items(competitions)[i])) \/
           LET histories == per_optimizer_histories(competitions, stable)
           IN \E n \in DOMAIN histories : StepKeyError(histories[n]))

collect_open_race_histories(d, stable) ==
    IF RaceFails(d, stable) THEN RAISE
    ELSE LET competitions == Get(TournamentResults(d).v, "competitions", EmptyList)
         IN IF ~Truthy(competitions) THEN Ok(<<>>)
            ELSE LET histories == per_optimizer_histories(competitions, stable)
                 IN Ok([n \in DOMAIN histories |-> Aggregated(histories[n])])


(************ generate_data.process_open_race_file ************************)
\* len(x) of a JSON value (None, numbers and booleans raise TypeError)
LenOk(x) == x.k \in {"list", "map", "str"}
len(x) ==
    CASE x.k = "list" -> Len(x.v)
      [] x.k = "map" -> Cardinality(DOMAIN x.v)
      [] x.k = "str" -> Len(x.v)
      [] OTHER -> 0

\* optimizer_histories: optimizer -> the optimization_history of each
\* competition that lists it, empty ones included (every entry is appended)
optimizer_histories(d) ==
    LET comps == Items(Get(d, "competitions", EmptyList))
        of(i, name) ==
            LET opt_results == Get(comps[i], "optimizer_results", EmptyMap)
            IN IF name \in DOMAIN opt_results.v
               THEN <<Get(opt_results.v[name], "optimization_history", EmptyList)>>
               ELSE <<>>
        names == UNION {DOMAIN Get(comps[i], "optimizer_results", EmptyMap).v : i \in DOMAIN comps}
    IN [n \in names |-> Flatten([i \in DOMAIN comps |-> of(i, n)])]

\* step_values of one step_idx: best_value_so_far of the record at that
\* position of every history long enough, when it is not None
StepValues(histories, step_idx) ==
    LET of(h) ==
            IF step_idx < len(h)
            THEN LET best_val == Get(h.v[step_idx + 1], "best_value_so_far", Null)
                 IN IF ~IsNull(best_val) THEN <<best_val>> ELSE <<>>
            ELSE <<>>
    IN Flatten([i \in DOMAIN histories |-> of(histories[i])])

max_steps(histories) == MaxOf({len(histories[i]) : i \in DOMAIN histories})

\* statistics.mean of a non-empty list of numbers: an int when the data are
\* ints (or bools) and the mean is whole, otherwise a float
MeanOfKind(ints, m) == IF ints /\ m.den = 1 THEN Num(m.num) ELSE FloatValue(m)

statistics_mean(s) ==
    MeanOfKind(\A i \in DOMAIN s : s[i].k \in {"num", "bool"},
               np_mean([i \in DOMAIN s |-> Number(s[i])]))

\* results[opt_name]: the steps that have a value, statistics.mean of the
\* values of each, and the last of these means (None when there is none)
OptimizerEntry(histories) ==
    LET with == SelectSeq([i \in 1..max_steps(histories) |-> i - 1],
                          LAMBDA step_idx : StepValues(histories, step_idx) # <<>>)
        values == [i \in DOMAIN with |-> statistics_mean(StepValues(histories, with[i]))]
    IN <<[steps |-> with, values |-> values,
          final_best |-> IF values # <<>> THEN Last(values) ELSE Null]>>

\* the exceptions of the call: iteration, .get, .items(), len(), indexing
\* and statistics.mean on a value of the wrong type
HistoryFails(h) ==
    ~LenOk(h) \/
    (len(h) > 0 /\
       (~IsList(h) \/
        \E j \in DOMAIN h.v :
            ~IsMap(h.v[j]) \/
            (~IsNull(Get(h.v[j], "best_value_so_far", Null))
                /\ ~IsNum(Get(h.v[j], "best_value_so_far", Null)))))

GenerateFails(d) ==
    ~IsMap(d) \/
    LET competitions == Get(d, "competitions", EmptyList)
    IN ~Iterable(competitions) \/
       \E i \in DOMAIN Items(competitions) :
           LET competition == Items(competitions)[i]
           IN ~IsMap(competition) \/
              LET opt_results == Get(competition, "optimizer_results", EmptyMap)
              IN ~IsMap(opt_results) \/
                 \E name \in DOMAIN opt_results.v :
                     ~IsMap(opt_results.v[name]) \/
                     HistoryFails(Get(opt_results.v[name], "optimization_history", EmptyList))

process_open_race_file(d) ==
    IF GenerateFails(d) THEN RAISE
    ELSE LET histories == optimizer_histories(d)
             entries == [n \in DOMAIN histories |-> OptimizerEntry(histories[n])]
         IN Ok([n \in {m \in DOMAIN entries : entries[m] # <<>>} |-> entries[n][1]])


(************************* documents: builders ****************************)
SeqsUpTo(S, n) == UNION {[1..m -> S] : m \in 0..n}

\* markers of the builders: a key left out, an optimizer left out
Absent == [k |-> "absent"]
NoEntry == [k |-> "none"]

\* an optimizer_results entry whose steps_to_target is x (a JSON value) or absent
StepsResult(x) == IF x = Absent THEN EmptyMap ELSE Map([steps_to_target |-> x])

\* a competition whose optimizer_results holds RANDOM and, unless b = NoEntry, BO_GP_EI
StepsCompetition(r, b) ==
    Map([optimizer_results |->
           IF b = NoEntry THEN Map([RANDOM |-> StepsResult(r)])
           ELSE Map([RANDOM |-> StepsResult(r), BO_GP_EI |-> StepsResult(b)])])

Tournament(comps) == Map([competitions |-> List(comps)])

\* an item of a compiled-analysis document
StatsEntry(x) ==
    IF x = Absent THEN Map([median_steps |-> Num(9)])
    ELSE Map([mean_steps |-> x, median_steps |-> Num(9)])

AnalysisItem(r, b) ==
    Map([data |-> Map([optimizer_stats |->
           IF b = NoEntry THEN Map([RANDOM |-> StatsEntry(r)])
           ELSE Map([RANDOM |-> StatsEntry(r), BO_GP_EI |-> StatsEntry(b)])])])

AnalysisDoc(items) == Map([type |-> Str("analysis"), items |-> List(items)])

\* the JSON shapes tried under each recognised key
JsonShapes ==
    {Null, Num(0), Num(1), Str(""), Str("x"), EmptyList, List(<<Num(1)>>),
     List(<<EmptyMap>>), EmptyMap, Map([x |-> Num(1)]),
     Bool(TRUE), FloatValue(Rat(5, 2)), Str("7"), Str("1.5 "),
     Str("all_tournament_results_v2"), Str("xtournament_results"), Str("xcompetitions")}

\* documents that are not a mapping
NonMappingDocs ==
    {Null, Num(1), Str("results"), EmptyList, List(<<Str("results")>>), Bool(FALSE)}

(******************* Hide-the-Label input documents **********************)
MaxComps == 3
MaxItems == 2

CompetitionChoices ==
    {StepsCompetition(r, b) : r \in {Absent, Null, Num(1), Num(2), Num(5)},
                              b \in {NoEntry, Num(3)}}

\* bare documents: the document is the sole tournament
PooledDocs == {Tournament(comps) : comps \in SeqsUpTo(CompetitionChoices, MaxComps)}

SampleTournaments ==
    {Tournament(<<>>),
     Tournament(<<StepsCompetition(Num(2), Num(3))>>),
     Tournament(<<StepsCompetition(Num(1), Null), StepsCompetition(Num(5), NoEntry)>>)}

\* the tournament wrappers of the if/elif chain
WrappedDocs ==
    UNION {
      {Map([all_tournament_results |-> List(ts)]),
       Map([results |-> Map([all_tournament_results |-> List(ts)])]),
       Map([results |-> Map([tournament_results |-> List(ts)])]),
       Map([tournament_results |-> List(ts)])} : ts \in SeqsUpTo(SampleTournaments, 2)}
    \cup UNION {
      {Map([results |-> t]),
       Map([results |-> Map([tournament_results |-> t])]),
       Map([tournament_results |-> t])} : t \in SampleTournaments}

AnalysisDocs ==
    {AnalysisDoc(items) :
        items \in SeqsUpTo({AnalysisItem(r, b) : r \in {Absent, Null, Num(10), Num(4)},
                                                 b \in {NoEntry, Num(7)}}, MaxItems)}
    \cup {Map([type |-> Str("analysis"), items |-> List(<<AnalysisItem(Num(10), NoEntry)>>),
               competitions |-> List(<<StepsCompetition(Num(2), Num(3))>>)]),
          Map([type |-> Str("analysis"),
               competitions |-> List(<<StepsCompetition(Num(2), Num(3))>>)]),
          Map([type |-> Str("summary"), items |-> List(<<AnalysisItem(Num(10), NoEntry)>>),
               competitions |-> List(<<StepsCompetition(Num(2), Num(3))>>)])}

\* every JSON shape under each key the Hide-the-Label chain reads
StatsVarianceDocs ==
    UNION {
      {Map([results |-> x]),
       Map([all_tournament_results |-> x]),
       Map([tournament_results |-> x]),
       Map([results |-> Map([all_tournament_results |-> x])]),
       Map([results |-> Map([tournament_results |-> x])]),
       Map([competitions |-> x]),
       Map([competitions |-> List(<<x>>)]),
       Map([competitions |-> List(<<Map([optimizer_results |-> x])>>)]),
       Map([competitions |-> List(<<Map([optimizer_results |-> Map([RANDOM |-> x])])>>)]),
       Map([competitions |-> List(<<Map([optimizer_results |->
              Map([RANDOM |-> Map([steps_to_target |-> x])])])>>)])} : x \in JsonShapes}

\* documents that carry several of the shapes at once, each shape holding a
\* value of its own for RANDOM: items 10, all_tournament_results 1,
\* results.all_tournament_results 2, results.tournament_results 5,
\* tournament_results 3, competitions 4. `r` is the set of keys under
\* "results" ({"absent"}: no "results" key)
OneValueTournaments(n) == List(<<Tournament(<<StepsCompetition(Num(n), NoEntry)>>)>>)

AmbiguousDoc(a, t, r, w, c) ==
    LET keys == (IF a THEN {"type", "items"} ELSE {})
                \cup (IF t THEN {"all_tournament_results"} ELSE {})
                \cup (IF r # {"absent"} THEN {"results"} ELSE {})
                \cup (IF w THEN {"tournament_results"} ELSE {})
                \cup (IF c THEN {"competitions"} ELSE {})
    IN Map([key \in keys |->
              CASE key = "type" -> Str("analysis")
                [] key = "items" -> List(<<AnalysisItem(Num(10), NoEntry)>>)
                [] key = "all_tournament_results" -> OneValueTournaments(1)
                [] key = "results" ->
                       Map([sub \in r |-> IF sub = "all_tournament_results"
                                          THEN OneValueTournaments(2)
                                          ELSE OneValueTournaments(5)])
                [] key = "tournament_results" -> OneValueTournaments(3)
                [] OTHER -> List(<<StepsCompetition(Num(4), NoEntry)>>)])

AmbiguousDocs ==
    {AmbiguousDoc(a, t, r, w, c) :
        a \in BOOLEAN, t \in BOOLEAN,
        r \in SUBSET {"all_tournament_results", "tournament_results"} \cup {{"absent"}},
        w \in BOOLEAN, c \in BOOLEAN}

StatsDocs == PooledDocs \cup WrappedDocs \cup AnalysisDocs \cup StatsVarianceDocs
             \cup AmbiguousDocs \cup NonMappingDocs

(***************************** the callers ********************************)
NoData == [k |-> "none"]

\* process_result_file's dispatch on race_type (the document is loaded)
process_result_file(d, race, st) ==
    IF race = "Hide_The_Label" THEN collect_hide_label_stats(d)
    ELSE collect_open_race_histories(d, st)

\* One call of collect_hide_label_stats on a document
CollectStats ==
    /\ pc = "call"
    /\ race_type = "Hide_The_Label"
    /\ results' = collect_hide_label_stats(data)
    /\ pc' = "done"
    /\ UNCHANGED <<data, race_type, playground_data, processed, argsort_stable,
                 htl_dirs, all_htl_steps, htl_summary, first_run,
                   or_dirs, or_summary>>

InitStats ==
    /\ data \in StatsDocs
    /\ race_type = "Hide_The_Label"
    /\ results = PENDING
    /\ pc = "call"
    /\ playground_data = <<>>
    /\ processed = <<>>
    /\ argsort_stable = TRUE
    /\ htl_dirs = NoData
    /\ all_htl_steps = <<>>
    /\ htl_summary = PENDING
    /\ first_run = NoData
    /\ or_dirs = NoData
    /\ or_summary = PENDING

NextStats == CollectStats

SpecStats == InitStats /\ [][NextStats]_vars


(********************* Open Race input documents **************************)
MaxTrials == 2
MaxHistLen == 3

\* a history record; a field that is Absent is left out
Record(step, best, cur) ==
    Map([f \in {g \in {"step", "best_value_so_far", "current_best"} :
                   (CASE g = "step" -> step [] g = "best_value_so_far" -> best
                      [] OTHER -> cur) # Absent} |->
           CASE f = "step" -> step [] f = "best_value_so_far" -> best [] OTHER -> cur])

Observed(step, value) == Record(Num(step), Num(value), Absent)

RaceResult(history) == Map([optimization_history |-> List(history)])

\* a competition in which optimizer SBO_GP_PV ran with this history
Trial(history) == Map([optimizer_results |-> Map([SBO_GP_PV |-> RaceResult(history)])])

\* a competition with two optimizers
TrialOfTwo(history, other) ==
    Map([optimizer_results |->
           Map([SBO_GP_PV |-> RaceResult(history), RANDOM |-> RaceResult(other)])])

\* alignment: up to MaxTrials trials of one optimizer, each of at most two
\* records in step order, with late starts, gaps, repeated steps and
\* decreasing values
AlignHistories ==
    {<<>>} \cup {<<Observed(st, v)>> : st \in 0..2, v \in {1, 3}}
    \cup {<<Observed(p[1], v[1]), Observed(p[2], v[2])>> :
             p \in {q \in (0..2) \X (0..2) : q[1] <= q[2]},
             v \in {<<1, 1>>, <<1, 3>>, <<3, 1>>}}
AlignDocs == {Tournament(trials) :
                 trials \in SeqsUpTo({Trial(h) : h \in AlignHistories}, MaxTrials)}

\* sorting and repair: one trial of up to MaxHistLen records in any order,
\* a negative step included
SingleRecords == {Observed(st, v) : st \in 0..2, v \in {3, 5, 7}} \cup {Observed(-1, 5)}
SingleDocs == {Tournament(<<Trial(h)>>) : h \in SeqsUpTo(SingleRecords, MaxHistLen)}

\* value selection: one record with every combination of its three fields
FieldDocs ==
    {Tournament(<<Trial(<<Record(st, best, cur)>>)>>) :
        st \in {Absent, Null, Num(0), Num(2)},
        best \in {Absent, Null, Num(0), Num(4)},
        cur \in {Absent, Null, Num(0), Num(6)}}

\* the worked examples of the specification
TrialA == <<Observed(0, 1), Observed(1, 3)>>
TrialB == <<Observed(0, 2), Observed(1, 2), Observed(2, 4)>>
TrialGap == <<Observed(0, 2), Observed(3, 5)>>
TrialLong == <<Observed(0, 1), Observed(1, 1), Observed(2, 1), Observed(3, 1), Observed(4, 1)>>
ExampleMean == Tournament(<<Trial(TrialA), Trial(TrialB)>>)
ExampleFill == Tournament(<<Trial(TrialGap), Trial(TrialLong)>>)
ExampleDocs ==
    {ExampleMean, ExampleFill,
     Tournament(<<Trial(TrialB), Trial(TrialA)>>),
     Tournament(<<Trial(TrialLong), Trial(TrialGap)>>),
     Tournament(<<Trial(TrialGap)>>),
     Tournament(<<TrialOfTwo(TrialA, TrialGap), TrialOfTwo(TrialB, <<>>),
                  TrialOfTwo(<<>>, TrialLong)>>)}

\* the wrappers collect_open_race_histories looks through
RaceWrappedDocs ==
    UNION {
      {Map([results |-> t]),
       Map([tournament_results |-> t]),
       Map([tournament_results |-> List(<<t>>)]),
       Map([results |-> Map([tournament_results |-> t])]),
       Map([results |-> Map([tournament_results |-> List(<<t>>)])]),
       Map([results |-> EmptyMap, competitions |-> t.v["competitions"]]),
       Map([results |-> t, competitions |-> List(<<Trial(TrialGap)>>)]),
       Map([tournament_results |-> t, competitions |-> List(<<Trial(TrialGap)>>)])} :
      t \in {Tournament(<<>>), Tournament(<<Trial(TrialA), Trial(TrialB)>>),
             Tournament(<<TrialOfTwo(TrialA, TrialB)>>)}}

\* every JSON shape under each key collect_open_race_histories reads
RaceVarianceDocs ==
    UNION {
      {Map([results |-> x]),
       Map([competitions |-> x]),
       Map([tournament_results |-> x]),
       Map([results |-> Map([competitions |-> x])]),
       Map([tournament_results |-> Map([competitions |-> x])]),
       Map([competitions |-> List(<<x>>)]),
       Map([competitions |-> List(<<Map([optimizer_results |-> x])>>)]),
       Map([competitions |-> List(<<Map([optimizer_results |-> Map([RANDOM |-> x])])>>)]),
       Tournament(<<Map([optimizer_results |->
                           Map([RANDOM |-> Map([optimization_history |-> x])])])>>),
       Tournament(<<Trial(<<x>>)>>),
       Tournament(<<Trial(<<Record(x, Num(1), Absent)>>)>>),
       Tournament(<<Trial(<<Record(Num(0), x, Absent)>>)>>),
       Tournament(<<Trial(<<Record(Num(0), Absent, x)>>)>>)} : x \in JsonShapes}

\* trials that keep no record (no history, a record without a value, a
\* record without a step) next to trials that keep some
EmptyHistories ==
    {<<>>, <<Record(Num(0), Null, Absent)>>, <<Record(Absent, Num(4), Absent)>>}
EmptyTrialDocs ==
    {Tournament(<<TrialOfTwo(h1, e1), TrialOfTwo(h2, e2)>>) :
        h1 \in {<<>>, TrialA, TrialGap}, h2 \in {<<>>, TrialA, TrialGap},
        e1 \in EmptyHistories, e2 \in EmptyHistories}

RaceDocs == AlignDocs \cup SingleDocs \cup FieldDocs \cup ExampleDocs
            \cup RaceWrappedDocs \cup RaceVarianceDocs \cup EmptyTrialDocs
            \cup NonMappingDocs

\* One call of collect_open_race_histories on a document
CollectRace ==
    /\ pc = "call"
    /\ race_type = "Open_Race"
    /\ results' = collect_open_race_histories(data, argsort_stable)
    /\ pc' = "done"
    /\ UNCHANGED <<data, race_type, playground_data, processed, argsort_stable,
                 htl_dirs, all_htl_steps, htl_summary, first_run,
                   or_dirs, or_summary>>

InitRace ==
    /\ data \in RaceDocs
    /\ race_type = "Open_Race"
    /\ results = PENDING
    /\ pc = "call"
    /\ playground_data = <<>>
    /\ processed = <<>>
    /\ argsort_stable \in BOOLEAN
    /\ htl_dirs = NoData
    /\ all_htl_steps = <<>>
    /\ htl_summary = PENDING
    /\ first_run = NoData
    /\ or_dirs = NoData
    /\ or_summary = PENDING

NextRace == CollectRace

SpecRace == InitRace /\ [][NextRace]_vars

\* One call of generate_data.process_open_race_file on a document
GenerateOpenRace ==
    /\ pc = "call"
    /\ race_type = "Open_Race"
    /\ results' = process_open_race_file(data)
    /\ pc' = "done"
    /\ UNCHANGED <<data, race_type, playground_data, processed, argsort_stable,
                 htl_dirs, all_htl_steps, htl_summary, first_run,
                   or_dirs, or_summary>>

InitGenerate ==
    /\ data \in RaceDocs
    /\ race_type = "Open_Race"
    /\ results = PENDING
    /\ pc = "call"
    /\ playground_data = <<>>
    /\ processed = <<>>
    /\ argsort_stable = TRUE
    /\ htl_dirs = NoData
    /\ all_htl_steps = <<>>
    /\ htl_summary = PENDING
    /\ first_run = NoData
    /\ or_dirs = NoData
    /\ or_summary = PENDING

NextGenerate == GenerateOpenRace

SpecGenerate == InitGenerate /\ [][NextGenerate]_vars

(****************************** main **************************************)
MaxFiles == 3

\* int(file_info['batch_size']): the digits the file name carries after
\* "Batch" (Digits of a sequence of digits), or None when it carries none
\* (NoData: int(None) raises TypeError)
Digits(ds) == [k |-> "digits", v |-> ds]

RECURSIVE int(_)
int(digits) == IF digits = <<>> THEN 0 ELSE 10 * int(SubSeq(digits, 1, Len(digits) - 1)) + Last(digits)

BatchSizes == {1, 10, 20}

\* "Merge optimizer results": the dataset entry is created when missing, then
\* every optimizer of results is assigned; store maps the coordinate
\* <<hidden_frac, difficulty, race_type, batch_size, dataset>> to its optimizers
StoreKeepFirst(store, coord, res) ==
    LET old == IF coord \in DOMAIN store THEN store[coord] ELSE <<>>
        new == [o \in DOMAIN old \cup DOMAIN res |->
                  IF o \in DOMAIN old THEN old[o] ELSE res[o]]
    IN [c \in DOMAIN store \cup {coord} |-> IF c = coord THEN new ELSE store[c]]

\* the dataset entry is replaced by the optimizers of results
StoreReplaceEntry(store, coord, res) ==
    [c \in DOMAIN store \cup {coord} |-> IF c = coord THEN res ELSE store[c]]

StoreResults(store, coord, res) ==
    LET old == IF coord \in DOMAIN store THEN store[coord] ELSE <<>>
        new == [o \in DOMAIN old \cup DOMAIN res |->
                  IF o \in DOMAIN res THEN res[o] ELSE old[o]]
    IN [c \in DOMAIN store \cup {coord} |-> IF c = coord THEN new ELSE store[c]]

\* What the body of the try block does with one file: "error" (an exception,
\* caught and printed), "skipped" (invalid batch size) or "stored"
FileOutcome(f, stable) ==
    IF f.batch_size = NoData THEN "error"
    ELSE IF int(f.batch_size.v) \notin BatchSizes THEN "skipped"
    ELSE IF f.content = NoData THEN "error"
    ELSE IF process_result_file(f.content, f.race_type, stable) = RAISE THEN "error"
    ELSE "stored"

FileCoord(f) == <<f.hidden_frac, f.difficulty, f.race_type, int(f.batch_size.v), f.dataset>>

\* the store of the earlier call is used again
KeptStore(previous) == previous

\* playground_data as main builds it before the directory loops, whatever an
\* earlier call of main left behind (previous): a new object with the
\* hidden_frac, difficulty, race_type and batch_size levels and no dataset
FreshStore(previous) == <<>>

\* the dataset entry is created as soon as the batch size is accepted
StoreAfterFileEager(store, f, outcome, res) ==
    IF outcome = "stored" THEN StoreResults(store, FileCoord(f), res.v)
    ELSE IF outcome = "error" /\ f.batch_size # NoData
    THEN StoreResults(store, FileCoord(f), <<>>)
    ELSE store

\* The store after one iteration of the file loop, given what the statements
\* up to process_result_file did (outcome) and returned (res): the dataset
\* entry and the merge come after them, inside the same try block
StoreAfterFile(store, f, outcome, res) ==
    IF outcome = "stored" THEN StoreResults(store, FileCoord(f), res.v) ELSE store

\* the files of the run: two race directories, several batch sizes and
\* datasets, documents that produce different optimizers, an empty
\* aggregate, a document that raises, an unreadable file (content NoData)
File(hf, diff, race, batch, ds, content) ==
    [hidden_frac |-> hf, difficulty |-> diff, race_type |-> race,
     batch_size |-> batch, dataset |-> ds, content |-> content]

StatsFile(batch, ds, content) == File("0.95", "Regular", "Hide_The_Label", batch, ds, content)
RaceFile(batch, ds, content) == File("0.99", "Hard", "Open_Race", batch, ds, content)

MainFiles ==
    {StatsFile(Digits(<<1>>), "T_Cell", Tournament(<<StepsCompetition(Num(2), Num(3))>>)),
     StatsFile(Digits(<<1>>), "T_Cell", Tournament(<<StepsCompetition(Num(5), NoEntry)>>)),
     StatsFile(Digits(<<1>>), "T_Cell", Tournament(<<StepsCompetition(Null, Num(3))>>)),
     StatsFile(Digits(<<1>>), "T_Cell", Tournament(<<StepsCompetition(Null, NoEntry)>>)),
     StatsFile(Digits(<<1>>), "T_Cell", Map([results |-> Null])),
     StatsFile(Digits(<<1>>), "T_Cell", NoData),
     StatsFile(Digits(<<2, 0>>), "T_Cell", Tournament(<<StepsCompetition(Num(2), Num(3))>>)),
     StatsFile(Digits(<<1>>), "unknown", Tournament(<<StepsCompetition(Num(5), NoEntry)>>)),
     StatsFile(NoData, "T_Cell", Tournament(<<StepsCompetition(Num(2), Num(3))>>)),
     StatsFile(Digits(<<5>>), "T_Cell", Tournament(<<StepsCompetition(Num(2), Num(3))>>)),
     RaceFile(Digits(<<1, 0>>), "T_Cell", ExampleMean),
     RaceFile(Digits(<<1, 0>>), "T_Cell", Tournament(<<TrialOfTwo(TrialB, TrialA)>>))}

\* the state after one iteration, given what the try block did (outcome)
\* and what process_result_file returned (res)
AfterFile(f, outcome, res) ==
    /\ data' = IF outcome \in {"stored"} \/ (outcome = "error" /\ f.batch_size # NoData
                                              /\ f.content # NoData)
               THEN f.content ELSE data
    /\ race_type' = f.race_type
    /\ results' = res
    /\ playground_data' = StoreAfterFile(playground_data, f, outcome, res)
    /\ processed' = Append(processed, [file |-> f, outcome |-> outcome, results |-> res])

ProcessWith(f, outcome) ==
    AfterFile(f, outcome,
              IF outcome = "stored"
              THEN process_result_file(f.content, f.race_type, argsort_stable) ELSE RAISE)

\* One iteration of `for json_file in json_files` with its try/except
ProcessOne(f) == ProcessWith(f, FileOutcome(f, argsort_stable))

ProcessFile ==
    /\ pc = "main"
    /\ Len(processed) < MaxFiles
    /\ \E f \in MainFiles : ProcessOne(f)
    /\ UNCHANGED <<pc, argsort_stable,
                 htl_dirs, all_htl_steps, htl_summary, first_run,
                   or_dirs, or_summary>>

\* json.dump(playground_data, f) after the last file
Save ==
    /\ pc = "main"
    /\ pc' = "saved"
    /\ UNCHANGED <<data, race_type, results, playground_data, processed, argsort_stable,
                 htl_dirs, all_htl_steps, htl_summary, first_run,
                   or_dirs, or_summary>>

Init ==
    /\ data = NoData
    /\ race_type = "Hide_The_Label"
    /\ results = PENDING
    /\ pc = "main"
    /\ playground_data = FreshStore(<<>>)
    /\ processed = <<>>
    /\ argsort_stable \in BOOLEAN
    /\ htl_dirs = NoData
    /\ all_htl_steps = <<>>
    /\ htl_summary = PENDING
    /\ first_run = NoData
    /\ or_dirs = NoData
    /\ or_summary = PENDING

Next == ProcessFile \/ Save

Spec == Init /\ [][Next]_vars

(************************ main, called a second time **********************)
MaxRerunFiles == 2

\* main returns and is called again over the same files, found in the same
\* order: first_run keeps what the first call processed and saved
Rerun ==
    /\ pc = "saved"
    /\ first_run = NoData
    /\ Len(processed) <= MaxRerunFiles
    /\ first_run' = [processed |-> processed, store |-> playground_data]
    /\ playground_data' = FreshStore(playground_data)
    /\ processed' = <<>>
    /\ pc' = "rerun"
    /\ UNCHANGED <<data, race_type, results, argsort_stable,
                   htl_dirs, all_htl_steps, htl_summary,
                   or_dirs, or_summary>>

ReprocessFile ==
    /\ pc = "rerun"
    /\ Len(processed) < Len(first_run.processed)
    /\ ProcessOne(first_run.processed[Len(processed) + 1].file)
    /\ UNCHANGED <<pc, argsort_stable,
                   htl_dirs, all_htl_steps, htl_summary, first_run,
                   or_dirs, or_summary>>

SaveAgain ==
    /\ pc = "rerun"
    /\ Len(processed) = Len(first_run.processed)
    /\ pc' = "resaved"
    /\ UNCHANGED <<data, race_type, results, playground_data, processed, argsort_stable,
                   htl_dirs, all_htl_steps, htl_summary, first_run,
                   or_dirs, or_summary>>

NextRerun == ProcessFile \/ Save \/ Rerun \/ ReprocessFile \/ SaveAgain

SpecRerun == Init /\ [][NextRerun]_vars

(******************** generate_data.generate_data_files *******************)
MaxGenFiles == 3

MinOf(S) == CHOOSE m \in S : \A x \in S : m <= x

\* str.find(sub) + 1, str.split(sep), str.replace(old, ""), str.startswith
Find(s, sub) ==
    IF Substring(sub, s)
    THEN MinOf({i \in 1..(Len(s) - Len(sub) + 1) : SubSeq(s, i, i + Len(sub) - 1) = sub})
    ELSE 0

RECURSIVE Split(_, _)
Split(s, sep) ==
    LET i == Find(s, sep)
    IN IF i = 0 THEN <<s>>
       ELSE <<SubSeq(s, 1, i - 1)>> \o Split(SubSeq(s, i + Len(sep), Len(s)), sep)

RECURSIVE Remove(_, _)
Remove(s, old) ==
    LET i == Find(s, old)
    IN IF i = 0 THEN s
       ELSE SubSeq(s, 1, i - 1) \o Remove(SubSeq(s, i + Len(old), Len(s)), old)

StartsWith(s, prefix) == Len(s) >= Len(prefix) /\ SubSeq(s, 1, Len(prefix)) = prefix

\* the keys of DATASET_MAP in the order of the dict, with their values
DATASET_MAP ==
    <<<<"T_Cell", "T_Cell">>, <<"TF_Cell", "TF_Cell">>,
      <<"Hela_regular_mode", "Hela_regular">>,
      <<"Hela_timesaving_mode", "Hela_timesaving">>,
      <<"rat_myocyte", "rat_myocyte">>>>

\* The metadata of a file name: dataset of the first DATASET_MAP key the name
\* contains (None when it contains none), batch = int() of the first part
\* that starts with "Batch", with every "Batch" taken out (None without such
\* a part, ValueError when the rest is no integer), hidden_frac = float() of
\* the part after the first "Percentage" (None when that fails)
extract_metadata_from_filename(filename) ==
    LET parts == Split(Remove(filename, ".json"), "_")
        keys == {i \in DOMAIN DATASET_MAP : Substring(DATASET_MAP[i][1], filename)}
        batches == {i \in DOMAIN parts : StartsWith(parts[i], "Batch")}
        batch == Remove(parts[MinOf(batches)], "Batch")
        percentages == {i \in DOMAIN parts : parts[i] = "Percentage"}
        next == MinOf(percentages) + 1
    IN IF batches # {} /\ ~IntNumeral(batch) THEN RAISE
       ELSE Ok([optimizer |-> Str(parts[1]),
                dataset |-> IF keys = {} THEN Null ELSE Str(DATASET_MAP[MinOf(keys)][2]),
                mode |-> Str(IF Substring("Easy", filename) THEN "Regular" ELSE "Hard"),
                race_type |-> Str(IF Substring("Hide_The_Label", filename)
                                  THEN "Hide_The_Label" ELSE "Open_Race"),
                batch |-> IF batches = {} THEN Null ELSE Num(IntOfStr(batch)),
                hidden_frac |-> IF percentages # {} /\ next <= Len(parts)
                                   /\ FloatNumeral(parts[next])
                                THEN FloatValue(FloatOfStr(parts[next])) ELSE Null])

\* `a < b` of two numbers (int, float, bool)
Lt(a, b) == RatLess(Number(a), Number(b))

\* min(s), max(s): the first element no later one is below (above)
RECURSIVE py_min(_)
py_min(s) ==
    IF Len(s) = 1 THEN s[1]
    ELSE LET m == py_min(SubSeq(s, 1, Len(s) - 1))
         IN IF Lt(s[Len(s)], m) THEN s[Len(s)] ELSE m

RECURSIVE py_max(_)
py_max(s) ==
    IF Len(s) = 1 THEN s[1]
    ELSE LET m == py_max(SubSeq(s, 1, Len(s) - 1))
         IN IF Lt(m, s[Len(s)]) THEN s[Len(s)] ELSE m

\* sorted(s) of a short list: the leading run (ascending, or strictly
\* descending and then reversed), then each later element put in by binary
\* insertion
Reverse(s) == [i \in DOMAIN s |-> s[Len(s) + 1 - i]]

RunLength(s) ==
    IF Len(s) < 2 THEN Len(s)
    ELSE LET descending == Lt(s[2], s[1])
         IN CHOOSE m \in 2..Len(s) :
               /\ \A i \in 3..m : Lt(s[i], s[i - 1]) = descending
               /\ m = Len(s) \/ Lt(s[m + 1], s[m]) # descending

RECURSIVE Bisect(_, _, _, _)
Bisect(t, pivot, l, r) ==
    IF l >= r THEN l
    ELSE LET p == l + (r - l) \div 2
         IN IF Lt(pivot, t[p + 1]) THEN Bisect(t, pivot, l, p)
            ELSE Bisect(t, pivot, p + 1, r)

InsertAt(t, pivot, l) == SubSeq(t, 1, l) \o <<pivot>> \o SubSeq(t, l + 1, Len(t))

RECURSIVE BinarySort(_, _)
BinarySort(s, n) ==
    IF n <= RunLength(s)
    THEN (IF Len(s) >= 2 /\ Lt(s[2], s[1]) THEN Reverse(SubSeq(s, 1, n)) ELSE SubSeq(s, 1, n))
    ELSE InsertAt(BinarySort(s, n - 1), s[n], Bisect(BinarySort(s, n - 1), s[n], 0, n - 1))

py_sorted(s) == BinarySort(s, Len(s))

\* statistics.median: data[n // 2] of the sorted data, or the float
\* (data[i - 1] + data[i]) / 2
Middle(t) ==
    IF Len(t) % 2 = 1 THEN t[Len(t) \div 2 + 1]
    ELSE FloatValue(np_mean(<<Number(t[Len(t) \div 2]), Number(t[Len(t) \div 2 + 1])>>))

statistics_median(s) == Middle(py_sorted(s))

\* optimizer_steps[opt_name] of one tournament: the steps_to_target that are
\* not None, as the document holds them
RawSteps(tournament, opt_name) ==
    LET competitions == Items(Get(tournament, "competitions", EmptyList))
        of(competition) ==
            LET opt_results == Get(competition, "optimizer_results", EmptyMap)
            IN IF opt_name \in DOMAIN opt_results.v
                  /\ ~IsNull(Get(opt_results.v[opt_name], "steps_to_target", Null))
               THEN <<opt_results.v[opt_name].v["steps_to_target"]>> ELSE <<>>
    IN Flatten([i \in DOMAIN competitions |-> of(competitions[i])])

\* results[opt_name] of a steps_list that is not empty
StepsListEntry(steps_list) ==
    [mean_steps |-> statistics_mean(steps_list),
     median_steps |-> statistics_median(steps_list),
     min_steps |-> py_min(steps_list),
     max_steps |-> py_max(steps_list),
     count |-> Len(steps_list)]

\* the entries one tournament assigns to results
TournamentEntries(tournament) ==
    [opt_name \in {n \in TournamentNames(tournament) : RawSteps(tournament, n) # <<>>} |->
        StepsListEntry(RawSteps(tournament, opt_name))]

\* results after the tournaments: a later tournament's entry of an optimizer
\* replaces an earlier one
RECURSIVE FileResults(_)
FileResults(tournaments) ==
    IF tournaments = <<>> THEN <<>>
    ELSE LET old == FileResults(SubSeq(tournaments, 1, Len(tournaments) - 1))
             new == TournamentEntries(tournaments[Len(tournaments)])
         IN [o \in DOMAIN old \cup DOMAIN new |-> IF o \in DOMAIN new THEN new[o] ELSE old[o]]

\* the exceptions of the call: .get and .items() on a value that is no dict,
\* iteration over None or a number, statistics.mean on a value that is no
\* number
FileTournamentFails(tournament) ==
    ~IsMap(tournament) \/
    LET competitions == Get(tournament, "competitions", EmptyList)
    IN ~Iterable(competitions) \/
       \E i \in DOMAIN Items(competitions) :
           LET competition == Items(competitions)[i]
           IN ~IsMap(competition) \/
              LET opt_results == Get(competition, "optimizer_results", EmptyMap)
              IN ~IsMap(opt_results) \/
                 \E name \in DOMAIN opt_results.v :
                     ~IsMap(opt_results.v[name]) \/
                     LET steps == Get(opt_results.v[name], "steps_to_target", Null)
                     IN ~IsNull(steps) /\ ~IsNum(steps)

\* `'tournament_results' in data` raises on None and numbers, and
\* data['tournament_results'] on a list or a str that holds the key
HideLabelFileFails(d) ==
    InRaises(d) \/
    (In("tournament_results", d) /\
       (~IsMap(d) \/ ~Iterable(d.v["tournament_results"]) \/
        \E i \in DOMAIN Items(d.v["tournament_results"]) :
            FileTournamentFails(Items(d.v["tournament_results"])[i])))

process_hide_label_file(d) ==
    IF HideLabelFileFails(d) THEN RAISE
    ELSE IF ~In("tournament_results", d) THEN Ok(<<>>)
    ELSE Ok(FileResults(Items(d.v["tournament_results"])))

\* a file of Result_Official: the names of its three directories, its own
\* name and its document (NoData: json.load raises)
GenFile(hidden_frac_dir, mode_dir, race_dir, name, content) ==
    [hidden_frac_dir |-> hidden_frac_dir, mode_dir |-> mode_dir, race_dir |-> race_dir,
     name |-> name, content |-> content]

\* hidden_frac, mode and race_type come from the directory names; a
\* directory that is neither hiddenfrac95 nor hiddenfrac99 is passed over
HiddenFrac(f) ==
    LET hidden_frac_str == Remove(f.hidden_frac_dir, "hiddenfrac")
    IN IF hidden_frac_str = "95" THEN FloatValue(Rat(95, 100))
       ELSE IF hidden_frac_str = "99" THEN FloatValue(Rat(99, 100))
       ELSE Null
Mode(f) == IF Substring("Hard", f.mode_dir) THEN "Hard" ELSE "Regular"
RaceType(f) ==
    IF Substring("Hide_The_Label", f.race_dir) THEN "Hide_The_Label" ELSE "Open_Race"

GenResults(f) ==
    IF f.content = NoData THEN RAISE
    ELSE IF RaceType(f) = "Hide_The_Label" THEN process_hide_label_file(f.content)
    ELSE process_open_race_file(f.content)

\* What the loop does with one file: "ignored" (its directory is passed
\* over), "raised" (an exception, which nothing catches) or "stored"
GenOutcome(f, metadata) ==
    IF HiddenFrac(f) = Null THEN "ignored"
    ELSE IF metadata = RAISE THEN "raised"
    ELSE IF GenResults(f) = RAISE THEN "raised"
    ELSE "stored"

\* all_data[hidden_frac][mode][race_type][batch][dataset]
GenCoord(f, metadata) ==
    <<HiddenFrac(f), Mode(f), RaceType(f), metadata.v.batch, metadata.v.dataset>>

\* `for opt_name, opt_results in results.items(): all_data[...][opt_name] =
\* opt_results`: the levels down to the dataset come into being with the
\* first assignment, so empty results leave all_data as it is
AllDataAfterFile(all_data, f, metadata, outcome, res) ==
    IF outcome = "stored" /\ DOMAIN res.v # {}
    THEN StoreResults(all_data, GenCoord(f, metadata), res.v) ELSE all_data

\* "Data Summary": sorted() of the batch keys of a race type, or of the
\* dataset keys of a batch, raises TypeError when None is one of several keys
SummaryRaises(all_data) ==
    \E c1 \in DOMAIN all_data : \E c2 \in DOMAIN all_data :
        /\ c1[1] = c2[1] /\ c1[2] = c2[2] /\ c1[3] = c2[3]
        /\ \/ IsNull(c1[4]) /\ ~IsNull(c2[4])
           \/ c1[4] = c2[4] /\ IsNull(c1[5]) /\ ~IsNull(c2[5])

\* "Missing Data Check" looks at all_data[0.99]["Hard"]["Open_Race"][20]
MissingCheckPath == <<FloatValue(Rat(99, 100)), "Hard", "Open_Race", Num(20)>>

\* the dataset keys of a batch of hiddenfrac99, Hard, Open_Race
DatasetsOfBatch(all_data, batch) ==
    {c[5] : c \in {c \in DOMAIN all_data :
                     SubSeq(c, 1, 4) = SubSeq(MissingCheckPath, 1, 3) \o <<batch>>}}

\* With data for batch 20, the datasets of the batches 1 and 10 that batch 20
\* lacks are sorted and joined: TypeError when None is one of them (from
\* sorted() when there are several, from str.join otherwise)
MissingCheckRaises(all_data) ==
    LET test_data == DatasetsOfBatch(all_data, Num(20))
        missing_datasets ==
            (DatasetsOfBatch(all_data, Num(1)) \cup DatasetsOfBatch(all_data, Num(10)))
                \ test_data
    IN test_data # {} /\ Null \in missing_datasets

\* all_data is a defaultdict: indexing it down to batch 20 brings into being
\* the levels of that path it did not hold, each empty
MissingCheckCreates(all_data) ==
    {SubSeq(MissingCheckPath, 1, n) : n \in
        {n \in 1..4 : \A c \in DOMAIN all_data :
                          SubSeq(c, 1, n) # SubSeq(MissingCheckPath, 1, n)}}

\* the directories of a file, outermost first
DirPath(f) == <<f.hidden_frac_dir, f.mode_dir, f.race_dir>>

\* The three nested loops list a directory once and a file once: f is new,
\* and each directory of f is the one of the last file or one not yet listed
NextInOrder(done, f) ==
    /\ \A i \in DOMAIN done : done[i].file.name = f.name => DirPath(done[i].file) # DirPath(f)
    /\ \A n \in 1..3 : \A i \in DOMAIN done :
           SubSeq(DirPath(done[i].file), 1, n) = SubSeq(DirPath(f), 1, n)
               => \A j \in i..Len(done) :
                      SubSeq(DirPath(done[j].file), 1, n) = SubSeq(DirPath(f), 1, n)

GenDirs(name, content) ==
    IF Substring("Hide_The_Label", name)
    THEN GenFile("hiddenfrac95", "Regular_Mode", "Hide_The_Label", name, content)
    ELSE GenFile("hiddenfrac99", "Hard_Mode", "Open_Race", name, content)

TournamentsDoc(ts) == Map([tournament_results |-> List(ts)])

\* the files of the run: two race directories, batch sizes 1, 5, 20 and none,
\* known and unknown datasets, one and two tournaments, a document without
\* tournament_results, values that are no numbers, a name whose batch is no
\* integer, a file that is no JSON, a directory that is passed over
GenerateFiles ==
    {GenDirs("RANDOM_T_Cell_Easy_Hide_The_Label_Batch1_Percentage_0.95.json",
             TournamentsDoc(<<Tournament(<<StepsCompetition(Num(2), Num(3))>>)>>)),
     GenDirs("BO_T_Cell_Easy_Hide_The_Label_Batch1_Percentage_0.95.json",
             TournamentsDoc(<<Tournament(<<StepsCompetition(Num(4), Num(3)),
                                           StepsCompetition(Num(1), Null),
                                           StepsCompetition(Num(8), NoEntry)>>),
                              Tournament(<<StepsCompetition(Null, Num(6)),
                                           StepsCompetition(Null, Bool(TRUE))>>)>>)),
     GenDirs("RANDOM_T_Cell_Easy_Hide_The_Label_Batch5_Percentage_0.95.json",
             TournamentsDoc(<<Tournament(<<StepsCompetition(Num(5), NoEntry)>>)>>)),
     GenDirs("RANDOM_T_Cell_Easy_Hide_The_Label.json",
             TournamentsDoc(<<Tournament(<<StepsCompetition(FloatValue(Rat(5, 2)), NoEntry)>>)>>)),
     GenDirs("RANDOM_Easy_Hide_The_Label_Batch1.json",
             TournamentsDoc(<<Tournament(<<StepsCompetition(Num(7), NoEntry)>>)>>)),
     GenDirs("RANDOM_Hela_regular_mode_Hide_The_Label_Batch1.json",
             Tournament(<<StepsCompetition(Num(2), Num(3))>>)),
     GenDirs("RANDOM_TF_Cell_Hide_The_Label_Batch10.json",
             TournamentsDoc(<<Tournament(<<StepsCompetition(Str("7"), NoEntry)>>)>>)),
     GenDirs("RANDOM_TF_Cell_Hide_The_Label_Batchx.json",
             TournamentsDoc(<<Tournament(<<StepsCompetition(Num(2), NoEntry)>>)>>)),
     GenDirs("RANDOM_TF_Cell_Hide_The_Label_Batch2.json", NoData),
     GenFile("hiddenfrac90", "Regular_Mode", "Hide_The_Label",
             "RANDOM_T_Cell_Hide_The_Label_Batch1.json",
             TournamentsDoc(<<Tournament(<<StepsCompetition(Num(9), NoEntry)>>)>>)),
     GenDirs("SBO_T_Cell_Hard_Open_Race_Batch10_Percentage_0.99.json", ExampleMean),
     GenDirs("SBO_T_Cell_Hard_Open_Race_Batch10.json",
             Tournament(<<TrialOfTwo(TrialB, <<>>)>>)),
     GenDirs("SBO_T_Cell_Hard_Open_Race.json", Tournament(<<Trial(TrialA)>>)),
     GenDirs("SBO_TF_Cell_Hard_Open_Race_Batch20.json", ExampleMean),
     GenDirs("SBO_Hard_Open_Race_Batch1.json", ExampleMean)}

\* the state after one file, given its metadata, what the body of the loop
\* did (outcome) and what the file's results are (res); data is the document
\* json.load returned last
AfterGenFile(f, metadata, outcome, res) ==
    /\ data' = IF outcome = "stored" \/ (outcome = "raised" /\ f.content # NoData
                                          /\ metadata # RAISE)
               THEN f.content ELSE data
    /\ race_type' = IF outcome = "ignored" THEN race_type ELSE RaceType(f)
    /\ results' = IF outcome = "ignored" THEN results ELSE res
    /\ playground_data' = AllDataAfterFile(playground_data, f, metadata, outcome, res)
    /\ processed' = Append(processed, [file |-> f, outcome |-> outcome, results |-> res])
    /\ pc' = IF outcome = "raised" THEN "generate_raised" ELSE pc

GenerateWith(f, metadata, outcome) ==
    AfterGenFile(f, metadata, outcome, IF outcome = "stored" THEN GenResults(f) ELSE RAISE)

GenerateOne(f, metadata) == GenerateWith(f, metadata, GenOutcome(f, metadata))

\* One iteration of `for json_file in race_dir.glob("*.json")`; the files of
\* a directory that is passed over are never listed, and leave the state
\* but for the history
GenerateFile ==
    /\ pc = "generate"
    /\ Len(processed) < MaxGenFiles
    /\ \E f \in {g \in GenerateFiles : NextInOrder(processed, g)} :
          GenerateOne(f, extract_metadata_from_filename(f.name))
    /\ UNCHANGED <<argsort_stable, htl_dirs, all_htl_steps, htl_summary, first_run,
                   or_dirs, or_summary>>

\* json.dump(json.loads(json.dumps(all_data)), f): playground_data.json holds
\* all_data, its keys written as JSON text
WritePlayground ==
    /\ pc = "generate"
    /\ pc' = "generated"
    /\ UNCHANGED <<data, race_type, results, playground_data, processed, argsort_stable,
                   htl_dirs, all_htl_steps, htl_summary, first_run,
                   or_dirs, or_summary>>

\* "Data Summary" and "Missing Data Check": all_data is returned, with the
\* empty levels the check made, unless sorting the keys raised; the file
\* stays as written
PrintSummary ==
    /\ pc = "generated"
    /\ IF SummaryRaises(playground_data) \/ MissingCheckRaises(playground_data)
       THEN pc' = "summary_raised" /\ results' = RAISE
       ELSE /\ pc' = "returned"
            /\ results' = Ok([all_data |-> playground_data,
                              empty |-> MissingCheckCreates(playground_data)])
    /\ UNCHANGED <<data, race_type, playground_data, processed, argsort_stable,
                   htl_dirs, all_htl_steps, htl_summary, first_run,
                   or_dirs, or_summary>>

InitGenerateFiles ==
    /\ data = NoData
    /\ race_type = "Hide_The_Label"
    /\ results = PENDING
    /\ pc = "generate"
    /\ playground_data = <<>>
    /\ processed = <<>>
    /\ argsort_stable = TRUE
    /\ htl_dirs = NoData
    /\ all_htl_steps = <<>>
    /\ htl_summary = PENDING
    /\ first_run = NoData
    /\ or_dirs = NoData
    /\ or_summary = PENDING

NextGenerateFiles == GenerateFile \/ WritePlayground \/ PrintSummary

SpecGenerateFiles == InitGenerateFiles /\ [][NextGenerateFiles]_vars

(********************* process_results.py: main ***************************)
MaxDirFiles == 2

\* float(np.std(steps)): the square root of the mean squared distance to
\* the mean, kept as the exact number under the root (nan as soon as a
\* value is not finite: inf - inf)
np_std(steps) ==
    IF \E i \in DOMAIN steps : ~IsFinite(steps[i]) THEN [sqrt |-> NaN] ELSE
    LET mean == np_mean(steps)
        distance == [i \in DOMAIN steps |->
                       Rat(steps[i].num * mean.den - mean.num * steps[i].den,
                           steps[i].den * mean.den)]
        squares == [i \in DOMAIN steps |->
                      Rat(distance[i].num * distance[i].num,
                          distance[i].den * distance[i].den)]
    IN [sqrt |-> np_mean(squares)]

\* collect_hide_label_steps: data.get("all_tournament_results", []), [data]
\* when that is falsy, then the tournament loop of collect_hide_label_stats
StepsTournaments(d) ==
    LET tournaments == Get(d, "all_tournament_results", EmptyList)
    IN IF ~Truthy(tournaments) THEN List(<<d>>) ELSE tournaments

collect_hide_label_steps(d) ==
    IF ~IsMap(d) \/ TournamentsFail(StepsTournaments(d)) THEN RAISE
    ELSE LET tournaments == StepsTournaments(d)
             names == {n \in TournamentsNames(tournaments) :
                           TournamentsSteps(tournaments, n) # <<>>}
         IN Ok([n \in names |-> TournamentsSteps(tournaments, n)])

\* One iteration of process_hide_label_directory's file loop: what the file
\* extends all_steps_by_opt[opt] with; nothing when json.load (content is
\* NoData) or collect_hide_label_steps raises
FileSteps(content, opt) ==
    IF content = NoData THEN <<>>
    ELSE LET steps == collect_hide_label_steps(content)
         IN IF steps = RAISE THEN <<>>
            ELSE IF opt \in DOMAIN steps.v THEN steps.v[opt] ELSE <<>>

FileNames(content) ==
    IF content = NoData THEN {}
    ELSE LET steps == collect_hide_label_steps(content)
         IN IF steps = RAISE THEN {} ELSE DOMAIN steps.v

all_steps_by_opt(files, opt) == Flatten([i \in DOMAIN files |-> FileSteps(files[i], opt)])

\* The statistics of one optimizer's list of values
StepsStatistics(steps) ==
    [mean_steps |-> np_mean(steps), median_steps |-> np_median(steps),
     std_steps |-> np_std(steps), min_steps |-> np_min(steps),
     max_steps |-> np_max(steps), n_trials |-> Len(steps)]

process_hide_label_directory(files) ==
    LET names == UNION {FileNames(files[i]) : i \in DOMAIN files}
    IN [opt \in {n \in names : all_steps_by_opt(files, n) # <<>>} |->
          StepsStatistics(all_steps_by_opt(files, opt))]

\* [stats['mean_steps']] * max(1, stats['n_trials'] // 10)
MeanRepeated(stats) ==
    LET copies == IF stats.n_trials \div 10 > 1 THEN stats.n_trials \div 10 ELSE 1
    IN [i \in 1..copies |-> stats.mean_steps]

\* all_htl_steps after the summary of one directory has been added
ExtendHtlSteps(all_steps, summary) ==
    [opt \in DOMAIN all_steps \cup DOMAIN summary |->
        (IF opt \in DOMAIN all_steps THEN all_steps[opt] ELSE <<>>)
        \o (IF opt \in DOMAIN summary THEN MeanRepeated(summary[opt]) ELSE <<>>)]

\* the documents of the files of a directory: tournaments with one, two and
\* ten values of RANDOM, with BO_GP_EI, a null value, the
\* all_tournament_results wrapper, a document that raises, an unreadable file
HtlDocs ==
    {Tournament(<<StepsCompetition(Num(2), Num(3))>>),
     Tournament(<<StepsCompetition(Num(4), NoEntry), StepsCompetition(Num(8), NoEntry)>>),
     Tournament(<<StepsCompetition(Null, Num(5))>>),
     Map([all_tournament_results |->
            List(<<Tournament(<<StepsCompetition(Num(6), NoEntry)>>),
                   Tournament(<<StepsCompetition(Num(1), Num(7))>>)>>)]),
     Tournament([i \in 1..10 |-> StepsCompetition(Num(i), NoEntry)]),
     Map([competitions |-> Num(1)]),
     NoData}

HtlDocsSecond ==
    {Tournament(<<StepsCompetition(Num(4), NoEntry), StepsCompetition(Num(8), NoEntry)>>),
     Tournament(<<StepsCompetition(Num(2), Num(3))>>)}

\* a directory of htl_dirs: whether it exists and the documents of its files
Directory(exists, files) == [exists |-> exists, files |-> files]

HtlDirectories(docs) ==
    {Directory(FALSE, <<>>)} \cup {Directory(TRUE, files) : files \in SeqsUpTo(docs, MaxDirFiles)}

\* One iteration of `for htl_dir in htl_dirs`
ProcessHtlDirectory ==
    /\ pc \in {"htl_dir_1", "htl_dir_2"}
    /\ LET htl_dir == htl_dirs[IF pc = "htl_dir_1" THEN 1 ELSE 2]
       IN all_htl_steps' =
             IF htl_dir.exists
             THEN ExtendHtlSteps(all_htl_steps, process_hide_label_directory(htl_dir.files))
             ELSE all_htl_steps
    /\ pc' = IF pc = "htl_dir_1" THEN "htl_dir_2" ELSE "htl_recalculate"
    /\ UNCHANGED <<data, race_type, results, playground_data, processed, argsort_stable,
                   htl_dirs, htl_summary, first_run,
                   or_dirs, or_summary>>

\* "Recalculate aggregate statistics"
RecalculateHtl ==
    /\ pc = "htl_recalculate"
    /\ htl_summary' =
          Ok([opt \in {o \in DOMAIN all_htl_steps : all_htl_steps[o] # <<>>} |->
                StepsStatistics(all_htl_steps[opt])])
    /\ pc' = "htl_recalculated"
    /\ UNCHANGED <<data, race_type, results, playground_data, processed, argsort_stable,
                   htl_dirs, all_htl_steps, first_run,
                   or_dirs, or_summary>>

\* process_results.collect_open_race_histories: the tournament object is the
\* document when its competitions are a list, else its tournament_results;
\* the loops over competitions, optimizers and records are those of
\* process_official_results, and the runs are returned as they are
OpenRaceTournament(d) ==
    IF IsList(Get(d, "competitions", Null)) THEN d ELSE Get(d, "tournament_results", EmptyMap)

OpenRaceCompetitions(d) == Get(OpenRaceTournament(d), "competitions", EmptyList)

OpenRaceFails(d) ==
    ~IsMap(d) \/ ~IsMap(OpenRaceTournament(d)) \/
    (Truthy(OpenRaceCompetitions(d)) /\
       (~Iterable(OpenRaceCompetitions(d)) \/
        \E i \in DOMAIN Items(OpenRaceCompetitions(d)) :
            RaceCompetitionFails(Items(OpenRaceCompetitions(d))[i])))

open_race_histories(d, stable) ==
    IF OpenRaceFails(d) THEN RAISE
    ELSE IF ~Truthy(OpenRaceCompetitions(d)) THEN Ok(<<>>)
    ELSE Ok(per_optimizer_histories(OpenRaceCompetitions(d), stable))

\* One iteration of the file loop of lines 204-212: the runs the file extends
\* all_or_histories[opt] with; nothing when json.load (content is NoData) or
\* collect_open_race_histories raises
RunsOf(histories, opt) ==
    IF histories = RAISE THEN <<>>
    ELSE IF opt \in DOMAIN histories.v THEN histories.v[opt] ELSE <<>>

FileRuns(content, opt, stable) ==
    IF content = NoData THEN <<>> ELSE RunsOf(open_race_histories(content, stable), opt)

FileRunNames(content, stable) ==
    IF content = NoData \/ OpenRaceFails(content) THEN {}
    ELSE DOMAIN open_race_histories(content, stable).v

DirectoryRuns(dir, opt, stable) ==
    IF dir.exists
    THEN Flatten([i \in DOMAIN dir.files |-> FileRuns(dir.files[i], opt, stable)])
    ELSE <<>>

DirectoryRunNames(dir, stable) ==
    IF dir.exists THEN UNION {FileRunNames(dir.files[i], stable) : i \in DOMAIN dir.files}
    ELSE {}

\* all_or_histories after the loop over or_dirs
all_or_histories(dirs, stable) ==
    [opt \in UNION {DirectoryRunNames(dirs[d], stable) : d \in DOMAIN dirs} |->
        Flatten([d \in DOMAIN dirs |-> DirectoryRuns(dirs[d], opt, stable)])]

\* The forward fill of a run with steps: run_values[-1] of an empty list
\* (IndexError), step_to_values[s] of a step s below 0 (KeyError)
FillRaises(runs) ==
    \E i \in DOMAIN runs :
        /\ runs[i].steps # <<>>
        /\ \/ runs[i].values = <<>>
           \/ Last(runs[i].steps) + 1 < 0 /\ Last(runs[i].steps) + 1 <= max_step(runs)

\* aggregate_open_race_histories: the mean trajectory of every optimizer
\* that has runs (`if not runs: continue`); a step below 0 is no key of
\* step_to_values (KeyError)
WithRuns(histories) == {n \in DOMAIN histories : histories[n] # <<>>}

AggregateRaises(histories) ==
    \E n \in WithRuns(histories) : StepKeyError(histories[n]) \/ FillRaises(histories[n])

aggregate_open_race_histories(histories) ==
    IF AggregateRaises(histories) THEN RAISE
    ELSE Ok([n \in WithRuns(histories) |-> Aggregated(histories[n])])

\* the documents of the files of an Open Race directory: a trial of two
\* steps, two trials with a repeated step, a step of -1, the
\* tournament_results wrapper, a document that raises, an unreadable file
MaxOrFiles == 1

OrDocs ==
    {Tournament(<<Trial(<<Record(Num(0), Num(2), Absent), Record(Num(1), Num(5), Absent)>>)>>),
     Tournament(<<Trial(<<Record(Num(1), Num(4), Absent), Record(Num(1), Num(3), Absent)>>),
                  Trial(<<Record(Num(0), Num(6), Absent)>>)>>),
     Tournament(<<Trial(<<Record(Num(-1), Num(3), Absent)>>)>>),
     Map([tournament_results |->
            Tournament(<<Trial(<<Record(Num(2), Num(4), Absent)>>)>>)]),
     Map([competitions |-> Num(1)]),
     NoData}

OrDocsSecond ==
    {Tournament(<<Trial(<<Record(Num(0), Num(1), Absent)>>)>>)}

OrDirectories(docs) ==
    {Directory(FALSE, <<>>)} \cup {Directory(TRUE, files) : files \in SeqsUpTo(docs, MaxOrFiles)}

\* "Processing Open Race results...": the loops over or_dirs and their
\* files, then or_summary = aggregate_open_race_histories(...), outside any
\* try: when it raises main ends there and no file is written
OpenRaceSummarized(summary) ==
    /\ or_summary' = summary
    /\ pc' = IF summary = RAISE THEN "or_raised" ELSE "or_aggregated"

ProcessOpenRace ==
    /\ pc = "htl_recalculated"
    /\ OpenRaceSummarized(
           aggregate_open_race_histories(all_or_histories(or_dirs, argsort_stable)))
    /\ UNCHANGED <<data, race_type, results, playground_data, processed, argsort_stable,
                   htl_dirs, all_htl_steps, htl_summary, first_run, or_dirs>>

\* json.dump(htl_summary, f) to hide_label_data.json, and the rankings
SaveHtl ==
    /\ pc = "or_aggregated"
    /\ pc' = "htl_saved"
    /\ UNCHANGED <<data, race_type, results, playground_data, processed, argsort_stable,
                   htl_dirs, all_htl_steps, htl_summary, first_run,
                   or_dirs, or_summary>>

\* json.dump(or_summary, f) to open_race_data.json, and the rankings
SaveOr ==
    /\ pc = "htl_saved"
    /\ pc' = "or_saved"
    /\ UNCHANGED <<data, race_type, results, playground_data, processed, argsort_stable,
                   htl_dirs, all_htl_steps, htl_summary, first_run,
                   or_dirs, or_summary>>

InitResults ==
    /\ data = NoData
    /\ race_type = "Hide_The_Label"
    /\ results = PENDING
    /\ pc = "htl_dir_1"
    /\ playground_data = <<>>
    /\ processed = <<>>
    /\ argsort_stable \in BOOLEAN
    /\ htl_dirs \in {<<first, second>> : first \in HtlDirectories(HtlDocs),
                                         second \in HtlDirectories(HtlDocsSecond)}
    /\ all_htl_steps = <<>>
    /\ htl_summary = PENDING
    /\ first_run = NoData
    /\ or_dirs \in {<<first, second>> : first \in OrDirectories(OrDocs),
                                        second \in OrDirectories(OrDocsSecond)}
    /\ or_summary = PENDING

NextResults == ProcessHtlDirectory \/ RecalculateHtl \/ ProcessOpenRace \/ SaveHtl \/ SaveOr

SpecResults == InitResults /\ [][NextResults]_vars

(*********************** Hide-the-Label claims ****************************)
Returned == pc = "done" /\ results.k = "ok"

\* The competitions the tournament branches read, in document order, and
\* the steps_to_target entry of `opt` in one of them (Null when there is none)
ReadCompetitions(d) ==
    LET ts == Items(HideLabelTournaments(d).v)
    IN Flatten([i \in DOMAIN ts |-> Items(Get(ts[i], "competitions", EmptyList))])

StepsEntry(comp, opt) ==
    LET opt_res == Get(comp, "optimizer_results", EmptyMap)
    IN IF opt \in DOMAIN opt_res.v THEN Get(opt_res.v[opt], "steps_to_target", Null) ELSE Null

\* The values a document holds for `opt`: steps_to_target per competition, or
\* mean_steps per item of a compiled-analysis document (Null: none)
HeldValues(d, opt) ==
    IF HideLabelShape(d) = "analysis"
    THEN LET items == Items(Get(d, "items", EmptyList))
         IN [i \in DOMAIN items |->
               LET stats == Get(Get(items[i], "data", EmptyMap), "optimizer_stats", EmptyMap)
               IN IF opt \in DOMAIN stats.v THEN Get(stats.v[opt], "mean_steps", Null) ELSE Null]
    ELSE [i \in DOMAIN ReadCompetitions(d) |-> StepsEntry(ReadCompetitions(d)[i], opt)]

NonNull(held) == {i \in DOMAIN held : ~IsNull(held[i])}

\* C1: every summary collect_hide_label_stats emits has
\* min_steps <= median_steps <= max_steps and count >= 1, and count is the
\* number of non-null steps_to_target (or mean_steps) values the document
\* holds for that optimizer.
C1_SummaryOrderedAndCounted ==
    Returned =>
        \A opt \in DOMAIN results.v :
            LET sm == results.v[opt]
            IN /\ RatLeq(sm.min_steps, sm.median_steps)
               /\ RatLeq(sm.median_steps, sm.max_steps)
               /\ sm.count >= 1
               /\ sm.count = Cardinality(NonNull(HeldValues(data, opt)))

\* three values with the median strictly inside, and an even count whose
\* median is the midpoint of two different values
C1_Witness ==
    /\ Returned
    /\ \E opt \in DOMAIN results.v :
          /\ results.v[opt].count = 3
          /\ RatLess(results.v[opt].min_steps, results.v[opt].median_steps)
          /\ RatLess(results.v[opt].median_steps, results.v[opt].max_steps)

\* C7: an optimizer that is in some optimizer_results of the document but
\* has steps_to_target absent or null in every competition is not a key of
\* the returned summary.
AppearsInResults(d, opt) ==
    \E i \in DOMAIN ReadCompetitions(d) :
        opt \in DOMAIN Get(ReadCompetitions(d)[i], "optimizer_results", EmptyMap).v

C7_NoSummaryWithoutSteps ==
    (Returned /\ HideLabelShape(data) # "analysis") =>
        \A opt \in {"RANDOM", "BO_GP_EI"} :
            (AppearsInResults(data, opt) /\ NonNull(HeldValues(data, opt)) = {})
                => opt \notin DOMAIN results.v

\* RANDOM is null or absent in each of two or more competitions and is left
\* out, while BO_GP_EI of the same document is summarised
C7_Witness ==
    /\ Returned
    /\ HideLabelShape(data) # "analysis"
    /\ Len(ReadCompetitions(data)) >= 2
    /\ AppearsInResults(data, "RANDOM")
    /\ NonNull(HeldValues(data, "RANDOM")) = {}
    /\ "RANDOM" \notin DOMAIN results.v
    /\ "BO_GP_EI" \in DOMAIN results.v
    /\ \E i \in DOMAIN ReadCompetitions(data) :
          "steps_to_target" \in DOMAIN ReadCompetitions(data)[i].v["optimizer_results"].v["RANDOM"].v

\* C8: in a compiled-analysis document every item contributes, per
\* optimizer, exactly its mean_steps when that is present: the summary's
\* count, minimum, maximum and mean are those of the items' mean_steps; one
\* item with mean_steps = 10 for RANDOM gives mean_steps = 10.0, count = 1.
SumOver(held, I) == RatSum([i \in 1..Cardinality(I) |-> ToFloat(held[SetToSeq(I)[i]])])

C8_AnalysisItemsContributeMean ==
    (Returned /\ HideLabelShape(data) = "analysis") =>
        /\ \A opt \in {"RANDOM", "BO_GP_EI"} :
              LET held == HeldValues(data, opt)
                  I == NonNull(held)
              IN IF I = {} THEN opt \notin DOMAIN results.v
                 ELSE /\ opt \in DOMAIN results.v
                      /\ results.v[opt].count = Cardinality(I)
                      /\ \E i \in I : results.v[opt].min_steps = ToFloat(held[i])
                      /\ \E i \in I : results.v[opt].max_steps = ToFloat(held[i])
                      /\ \A i \in I : /\ RatLeq(results.v[opt].min_steps, ToFloat(held[i]))
                                      /\ RatLeq(ToFloat(held[i]), results.v[opt].max_steps)
                      /\ results.v[opt].mean_steps =
                            Rat(SumOver(held, I).num, SumOver(held, I).den * Cardinality(I))
        /\ data = AnalysisDoc(<<AnalysisItem(Num(10), NoEntry)>>) =>
              /\ DOMAIN results.v = {"RANDOM"}
              /\ results.v["RANDOM"].mean_steps = Float(10)
              /\ results.v["RANDOM"].count = 1

\* two items, one of which lacks mean_steps for RANDOM: RANDOM is
\* summarised from the other item alone
C8_Witness ==
    /\ Returned
    /\ HideLabelShape(data) = "analysis"
    /\ Len(Items(Get(data, "items", EmptyList))) = 2
    /\ Cardinality(NonNull(HeldValues(data, "RANDOM"))) = 1
    /\ "RANDOM" \in DOMAIN results.v
    /\ results.v["RANDOM"].count = 1
    /\ results.v["RANDOM"].mean_steps = Float(10)

\* The five shapes in the order the specification lists them: whether the
\* document carries shape k, and the values shape k holds for `opt`
ShapeMatches(d, k) ==
    CASE k = 1 -> /\ Get(d, "type", Null).k = "str"
                  /\ Get(d, "type", Null).v = "analysis"
                  /\ "items" \in DOMAIN d.v
      [] k = 2 -> "all_tournament_results" \in DOMAIN d.v
      [] k = 3 -> /\ "results" \in DOMAIN d.v
                  /\ IsMap(d.v["results"])
                  /\ "all_tournament_results" \in DOMAIN d.v["results"].v
      [] k = 4 -> /\ "results" \in DOMAIN d.v
                  /\ IsMap(d.v["results"])
                  /\ "tournament_results" \in DOMAIN d.v["results"].v
      [] OTHER -> TRUE

ShapeValues(d, k, opt) ==
    CASE k = 1 -> AnalysisSteps(Get(d, "items", EmptyList), opt)
      [] k = 2 -> TournamentsSteps(d.v["all_tournament_results"], opt)
      [] k = 3 -> TournamentsSteps(d.v["results"].v["all_tournament_results"], opt)
      [] k = 4 -> IF IsList(d.v["results"].v["tournament_results"])
                  THEN TournamentsSteps(d.v["results"].v["tournament_results"], opt)
                  ELSE <<>>
      [] OTHER -> TournamentsSteps(FallbackTournaments(d), opt)

EarliestShape(d) ==
    CHOOSE k \in 1..5 : ShapeMatches(d, k) /\ \A j \in 1..(k - 1) : ~ShapeMatches(d, j)

ShapesMatched(d) == {k \in 1..5 : ShapeMatches(d, k)}

\* C13: the shapes are tried in a fixed order (analysis marker, top-level
\* all_tournament_results, results.all_tournament_results,
\* results.tournament_results, fallback): the summary is computed from the
\* values of the earliest shape the document matches, and from no other.
C13_EarliestShapeOnly ==
    Returned =>
        \A opt \in {"RANDOM", "BO_GP_EI"} :
            LET vals == ShapeValues(data, EarliestShape(data), opt)
            IN IF vals = <<>> THEN opt \notin DOMAIN results.v
               ELSE /\ opt \in DOMAIN results.v
                    /\ results.v[opt].count = Len(vals)
                    /\ results.v[opt].mean_steps = np_mean(vals)
                    /\ results.v[opt].min_steps = np_min(vals)
                    /\ results.v[opt].max_steps = np_max(vals)

\* a document that carries shapes 2, 3, 4 and both forms of the fallback:
\* only the value under the top-level all_tournament_results is summarised
C13_Witness ==
    /\ Returned
    /\ ShapesMatched(data) = {2, 3, 4, 5}
    /\ "tournament_results" \in DOMAIN data.v
    /\ "competitions" \in DOMAIN data.v
    /\ DOMAIN results.v = {"RANDOM"}
    /\ results.v["RANDOM"].count = 1
    /\ results.v["RANDOM"].mean_steps = Float(1)

\* A wrapped-results single-tournament document: "results" is its only key
\* and holds one tournament object, directly or under "tournament_results"
IsTournamentObject(x) == IsMap(x) /\ IsList(Get(x, "competitions", Null))

WrappedTournament(d) ==
    IF IsTournamentObject(d.v["results"]) THEN d.v["results"]
    ELSE d.v["results"].v["tournament_results"]

IsWrappedSingle(d) ==
    /\ DOMAIN d.v = {"results"}
    /\ IsMap(d.v["results"])
    /\ \/ IsTournamentObject(d.v["results"])
       \/ /\ DOMAIN d.v["results"].v = {"tournament_results"}
          /\ IsTournamentObject(d.v["results"].v["tournament_results"])

\* C18 (as claimed): for a wrapped-results single-tournament document the
\* summary of each optimizer counts the competitions of that tournament
\* that carry a non-null steps_to_target for it.
C18_WrappedSingleTournamentRead ==
    (Returned /\ IsWrappedSingle(data)) =>
        \A opt \in {"RANDOM", "BO_GP_EI"} :
            LET vals == TournamentSteps(WrappedTournament(data), opt)
            IN IF vals = <<>> THEN opt \notin DOMAIN results.v
               ELSE /\ opt \in DOMAIN results.v
                    /\ results.v[opt].count = Len(vals)

(************************** Open Race claims ******************************)
RaceNames == {"SBO_GP_PV", "RANDOM"}

\* The competitions a returning call went through
RaceCompetitions(d) == Items(Get(TournamentResults(d).v, "competitions", EmptyList))

\* The records of `opt` in one competition that carry a step and a value, as
\* <<step, value>> pairs in arrival order
RawPairs(comp, opt) ==
    LET optimizer_results == Get(comp, "optimizer_results", EmptyMap)
    IN IF opt \notin DOMAIN optimizer_results.v THEN <<>>
       ELSE LET e == Extracted(ResultHistory(optimizer_results.v[opt]))
            IN [j \in DOMAIN e.steps |-> <<e.steps[j], e.values[j]>>]

\* The non-empty trials of `opt`, in competition order
Trials(d, opt) ==
    SelectSeq([i \in DOMAIN RaceCompetitions(d) |-> RawPairs(RaceCompetitions(d)[i], opt)],
              LAMBDA t : t # <<>>)

StepsOf(trial) == {trial[j][1] : j \in DOMAIN trial}
FirstStep(trial) == CHOOSE m \in StepsOf(trial) : \A x \in StepsOf(trial) : m <= x
LastStep(trial) == MaxOf(StepsOf(trial))
Distinct(trial) == Cardinality(StepsOf(trial)) = Len(trial)

\* C2 (as claimed): every emitted trajectory is non-decreasing along steps,
\* whatever steps the trials observed.
C2_AggregateNonDecreasing ==
    Returned =>
        \A opt \in DOMAIN results.v :
            \A i \in 2..Len(results.v[opt].values) :
                RatLeq(results.v[opt].values[i - 1], results.v[opt].values[i])

\* C3: an optimizer with a non-empty trial gets a trajectory with
\* len(steps) = len(values) = max_step + 1 and steps = [0, ..., max_step],
\* max_step being the largest last observed step of its trials.
C3_TrajectoryDense ==
    Returned =>
        \A opt \in RaceNames :
            Len(Trials(data, opt)) >= 1 =>
                /\ opt \in DOMAIN results.v
                /\ LET largest == MaxOf({LastStep(Trials(data, opt)[i]) :
                                             i \in DOMAIN Trials(data, opt)})
                       traj == results.v[opt]
                   IN /\ Len(traj.steps) = largest + 1
                      /\ Len(traj.values) = largest + 1
                      /\ \A i \in 1..(largest + 1) : traj.steps[i] = i - 1

\* two trials ending at different steps, the shorter one listed last
C3_Witness ==
    /\ Returned
    /\ Len(Trials(data, "SBO_GP_PV")) = 2
    /\ LastStep(Trials(data, "SBO_GP_PV")[1]) = 2
    /\ LastStep(Trials(data, "SBO_GP_PV")[2]) = 1
    /\ results.v["SBO_GP_PV"].steps = <<0, 1, 2>>

\* What the repaired trial `run` puts into step s: its values recorded at s,
\* and its last value once s is past its last step
SumAt(run, s) ==
    RatSum([j \in DOMAIN run.steps |-> IF run.steps[j] = s THEN run.values[j] ELSE Float(0)])
CountAt(run, s) == Cardinality({j \in DOMAIN run.steps : run.steps[j] = s})
Ended(run, s) == \A j \in DOMAIN run.steps : run.steps[j] < s

\* C4: the aggregated value at step s is the arithmetic mean of the values
\* the trials contribute at s (a trial that ended before s contributes its
\* last repaired value) and 0 when nothing is contributed; trials A and B of
\* the example give steps [0,1,2] and values [1.5, 2.5, 3.5].
C4_MeanOfContributions ==
    Returned =>
        /\ \A opt \in DOMAIN results.v :
              LET runs == per_optimizer_histories(
                              Get(TournamentResults(data).v, "competitions", EmptyList),
                              argsort_stable)[opt]
              IN \A s \in 0..(Len(results.v[opt].values) - 1) :
                    LET total == RatSum([i \in DOMAIN runs |->
                                    IF Ended(runs[i], s) THEN Last(runs[i].values)
                                    ELSE SumAt(runs[i], s)])
                        count == Cardinality({i \in DOMAIN runs : Ended(runs[i], s)})
                                 + RatSum([i \in DOMAIN runs |->
                                             Float(CountAt(runs[i], s))]).num
                    IN IF count = 0 THEN results.v[opt].values[s + 1] = Float(0)
                       ELSE results.v[opt].values[s + 1] = Rat(total.num, total.den * count)
        /\ data \in {ExampleMean, Tournament(<<Trial(TrialB), Trial(TrialA)>>)} =>
              results.v = [SBO_GP_PV |->
                             [steps |-> <<0, 1, 2>>,
                              values |-> <<Rat(3, 2), Rat(5, 2), Rat(7, 2)>>]]

C4_Witness ==
    /\ Returned
    /\ data = ExampleMean
    /\ results.v["SBO_GP_PV"].values = <<Rat(3, 2), Rat(5, 2), Rat(7, 2)>>

\* The value a trial most recently observed at or before step s
MostRecent(trial, s) ==
    LET j == CHOOSE j \in DOMAIN trial :
                 /\ trial[j][1] <= s
                 /\ \A h \in DOMAIN trial : trial[h][1] <= s => trial[h][1] <= trial[j][1]
    IN trial[j][2]

\* C5 (as claimed): between two of its observations, and after its last one,
\* a trial contributes the value it most recently observed, so the value
\* at s is the mean of those values over the trials that have started; the
\* trial observed at {0, 3} with {2.0, 5.0} counts 2.0 at steps 0-2.
C5_RecentValueBetweenObservations ==
    Returned =>
        \A opt \in DOMAIN results.v :
            LET trials == Trials(data, opt)
            IN (\A i \in DOMAIN trials :
                   /\ Distinct(trials[i])
                   /\ \A j \in 2..Len(trials[i]) :
                         /\ trials[i][j - 1][1] < trials[i][j][1]
                         /\ RatLeq(trials[i][j - 1][2], trials[i][j][2]))
               => \A s \in 0..(Len(results.v[opt].values) - 1) :
                     LET started == {i \in DOMAIN trials : FirstStep(trials[i]) <= s}
                         total == RatSum([i \in 1..Cardinality(started) |->
                                            MostRecent(trials[SetToSeq(started)[i]], s)])
                     IN started # {} =>
                           results.v[opt].values[s + 1] =
                               Rat(total.num, total.den * Cardinality(started))

\* The running maximum of values[1..i]
RunningMax(values, i) ==
    values[CHOOSE j \in 1..i : \A h \in 1..i : RatLeq(values[h], values[j])]

Pairs(run) == [j \in DOMAIN run.steps |-> <<run.steps[j], run.values[j]>>]
Occurrences(seq, x) == Cardinality({j \in DOMAIN seq : seq[j] = x})

\* C6: every trial, once sorted by step and repaired, is non-decreasing and
\* each repaired value is the running maximum of the raw values up to and
\* including it in step order, whatever order the records arrived in; the
\* raw history [(0,5),(1,3),(2,7)] repairs to [5,5,7] in each of its orders.
C6_RepairIsRunningMax ==
    Returned =>
        /\ \A opt \in RaceNames : \A c \in DOMAIN RaceCompetitions(data) :
              LET raw == RawPairs(RaceCompetitions(data)[c], opt)
                  runs == CompetitionRuns(RaceCompetitions(data)[c], opt, argsort_stable)
              IN IF raw = <<>> THEN runs = <<>>
                 ELSE /\ Len(runs) = 1
                      /\ Len(runs[1].steps) = Len(raw)
                      /\ Len(runs[1].values) = Len(raw)
                      /\ \A i \in 2..Len(raw) :
                            /\ runs[1].steps[i - 1] <= runs[1].steps[i]
                            /\ RatLeq(runs[1].values[i - 1], runs[1].values[i])
                      /\ LET sorted == SortedRun([steps |-> [j \in DOMAIN raw |-> raw[j][1]],
                                                  values |-> [j \in DOMAIN raw |-> raw[j][2]]],
                                                 argsort_stable)
                         IN /\ \A j \in DOMAIN raw :
                                  Occurrences(Pairs(sorted), raw[j]) = Occurrences(raw, raw[j])
                            /\ sorted.steps = runs[1].steps
                            /\ \A i \in DOMAIN raw :
                                  runs[1].values[i] = RunningMax(sorted.values, i)
                      /\ Distinct(raw) =>
                            \A i \in DOMAIN raw :
                               /\ \E j \in DOMAIN raw : /\ raw[j][1] <= runs[1].steps[i]
                                                         /\ raw[j][2] = runs[1].values[i]
                               /\ \A j \in DOMAIN raw : raw[j][1] <= runs[1].steps[i]
                                                         => RatLeq(raw[j][2], runs[1].values[i])
        /\ \A h \in {<<Observed(0, 5), Observed(1, 3), Observed(2, 7)>>,
                     <<Observed(0, 5), Observed(2, 7), Observed(1, 3)>>,
                     <<Observed(1, 3), Observed(0, 5), Observed(2, 7)>>,
                     <<Observed(1, 3), Observed(2, 7), Observed(0, 5)>>,
                     <<Observed(2, 7), Observed(0, 5), Observed(1, 3)>>,
                     <<Observed(2, 7), Observed(1, 3), Observed(0, 5)>>} :
              data = Tournament(<<Trial(h)>>) =>
                  /\ CompetitionRuns(Trial(h), "SBO_GP_PV", argsort_stable)
                        = <<[steps |-> <<0, 1, 2>>, values |-> <<Float(5), Float(5), Float(7)>>]>>
                  /\ results.v["SBO_GP_PV"].values = <<Float(5), Float(5), Float(7)>>

\* the example's records arriving in reverse order
C6_Witness ==
    /\ Returned
    /\ data = Tournament(<<Trial(<<Observed(2, 7), Observed(1, 3), Observed(0, 5)>>)>>)
    /\ results.v["SBO_GP_PV"].values = <<Float(5), Float(5), Float(7)>>

\* The document's competitions with every optimizer entry that keeps no
\* record taken out
WithoutEmptyTrials(d) ==
    LET comps == RaceCompetitions(d)
    IN Tournament([i \in DOMAIN comps |->
          LET optimizer_results == Get(comps[i], "optimizer_results", EmptyMap)
              kept == {n \in DOMAIN optimizer_results.v : RawPairs(comps[i], n) # <<>>}
          IN Map([optimizer_results |-> Map([n \in kept |-> optimizer_results.v[n]])])])

EmptyTrialsOf(d, opt) ==
    {i \in DOMAIN RaceCompetitions(d) :
        /\ opt \in DOMAIN Get(RaceCompetitions(d)[i], "optimizer_results", EmptyMap).v
        /\ RawPairs(RaceCompetitions(d)[i], opt) = <<>>}

\* C15: a trial that keeps no record (empty history, or no record with both
\* a step and a value) changes nothing: the call returns what it returns for
\* the document without such trials, an optimizer whose trials are all empty
\* is not a key of the result, and no emitted trajectory is empty.
C15_EmptyTrialsContributeNothing ==
    Returned =>
        /\ results = collect_open_race_histories(WithoutEmptyTrials(data), argsort_stable)
        /\ \A opt \in RaceNames :
              Trials(data, opt) = <<>> => opt \notin DOMAIN results.v
        /\ \A opt \in DOMAIN results.v :
              /\ Len(results.v[opt].values) >= 1
              /\ Len(results.v[opt].steps) =
                    1 + MaxOf({LastStep(Trials(data, opt)[i]) : i \in DOMAIN Trials(data, opt)})

\* RANDOM has only empty trials and is left out; SBO_GP_PV has an empty
\* trial and a trial ending at step 3, and gets steps 0..3
C15_Witness ==
    /\ Returned
    /\ Cardinality(EmptyTrialsOf(data, "RANDOM")) = 2
    /\ Cardinality(EmptyTrialsOf(data, "SBO_GP_PV")) = 1
    /\ Len(Trials(data, "SBO_GP_PV")) = 1
    /\ DOMAIN results.v = {"SBO_GP_PV"}
    /\ results.v["SBO_GP_PV"].steps = <<0, 1, 2, 3>>

\* The extraction as C17 states it: the value is best_value_so_far when that
\* is not null (0 included), else current_best; a record is kept unless its
\* step is null or both values are
ClaimedValue(record) ==
    IF ~IsNull(Get(record, "best_value_so_far", Null))
    THEN Get(record, "best_value_so_far", Null)
    ELSE Get(record, "current_best", Null)

ClaimedKept(record) == ~IsNull(Get(record, "step", Null)) /\ ~IsNull(ClaimedValue(record))

ClaimedExtracted(history) ==
    LET kept == SelectSeq(Items(history), ClaimedKept)
    IN [steps |-> [i \in DOMAIN kept |-> kept[i].v["step"].v],
        values |-> [i \in DOMAIN kept |-> Float(ClaimedValue(kept[i]).v)]]

ClaimedResult(d, stable) ==
    LET comps == RaceCompetitions(d)
        run(i, name) ==
            LET optimizer_results == Get(comps[i], "optimizer_results", EmptyMap)
            IN IF name \notin DOMAIN optimizer_results.v THEN <<>>
               ELSE LET e == ClaimedExtracted(ResultHistory(optimizer_results.v[name]))
                    IN IF e.steps = <<>> THEN <<>> ELSE <<RepairedRun(e, stable)>>
        runs(name) == Flatten([i \in DOMAIN comps |-> run(i, name)])
    IN [n \in {m \in RaceNames : runs(m) # <<>>} |-> Aggregated(runs(n))]

\* every record's step and values are numbers (steps not negative) or null
NumericRecords(d) ==
    \A i \in DOMAIN RaceCompetitions(d) :
        LET optimizer_results == Get(RaceCompetitions(d)[i], "optimizer_results", EmptyMap)
        IN /\ DOMAIN optimizer_results.v \subseteq RaceNames
           /\ \A n \in DOMAIN optimizer_results.v :
                 LET history == Items(ResultHistory(optimizer_results.v[n]))
                 IN \A j \in DOMAIN history :
                       /\ \A f \in {"step", "best_value_so_far", "current_best"} :
                             Get(history[j], f, Null).k \in {"null", "num"}
                       /\ IsNum(Get(history[j], "step", Null))
                             => Get(history[j], "step", Null).v >= 0

\* C17 (as claimed): the trajectories are those of the records read with
\* best_value_so_far whenever it is not null, 0 included, and current_best
\* only otherwise.
C17_FirstNonNullValue ==
    (Returned /\ NumericRecords(data)) =>
        results.v = ClaimedResult(data, argsort_stable)

\* C16 (as claimed): process_open_race_file emits no optimizer without
\* contributing data: every entry of the returned mapping has steps and
\* values that are not empty and a final_best that is not null.
C16_NoEmptyOptimizerEntry ==
    Returned =>
        \A opt \in DOMAIN results.v :
            /\ results.v[opt].steps # <<>>
            /\ results.v[opt].values # <<>>
            /\ ~IsNull(results.v[opt].final_best)

\* C10 (as claimed): on a document that is a mapping, whatever shapes lie
\* under the recognised keys and whatever the step values, the call returns
\* a mapping.
C10_NeverRaises == (pc = "done" /\ IsMap(data)) => results.k = "ok"


(****************************** store claims ******************************)
\* The files processed so far that stored `opt` at `coord`
Producers(coord, opt) ==
    {i \in DOMAIN processed :
        /\ processed[i].outcome = "stored"
        /\ FileCoord(processed[i].file) = coord
        /\ opt \in DOMAIN processed[i].results.v}

StoredCoords == {FileCoord(f) : f \in {g \in MainFiles : g.batch_size # NoData}}
StoredNames == {"RANDOM", "BO_GP_EI", "SBO_GP_PV"}

\* C9: after any sequence of insertions the aggregate stored for an
\* optimizer at a coordinate is that of the most recently processed file
\* that produced the optimizer there (a replacement, no pooling), and an
\* optimizer a later file does not produce keeps what an earlier file stored.
C9_LastWriterWins ==
    \A coord \in StoredCoords : \A opt \in StoredNames :
        IF Producers(coord, opt) = {}
        THEN coord \in DOMAIN playground_data => opt \notin DOMAIN playground_data[coord]
        ELSE /\ coord \in DOMAIN playground_data
             /\ opt \in DOMAIN playground_data[coord]
             /\ playground_data[coord][opt] =
                   processed[MaxOf(Producers(coord, opt))].results.v[opt]

\* two files at one coordinate: the second replaces RANDOM with a different
\* summary and does not produce BO_GP_EI, which keeps the first file's
C9_Witness ==
    /\ Len(processed) = 2
    /\ processed[1].outcome = "stored"
    /\ processed[2].outcome = "stored"
    /\ FileCoord(processed[1].file) = FileCoord(processed[2].file)
    /\ DOMAIN processed[1].results.v = {"RANDOM", "BO_GP_EI"}
    /\ DOMAIN processed[2].results.v = {"RANDOM"}
    /\ processed[1].results.v["RANDOM"] # processed[2].results.v["RANDOM"]
    /\ playground_data[FileCoord(processed[2].file)]["RANDOM"] = processed[2].results.v["RANDOM"]
    /\ playground_data[FileCoord(processed[2].file)]["BO_GP_EI"] = processed[1].results.v["BO_GP_EI"]

\* C19 (as claimed): a file whose aggregate is empty creates no dataset
\* entry, so every dataset entry of the store holds at least one optimizer.
C19_NoEmptyDatasetEntry ==
    \A coord \in DOMAIN playground_data : DOMAIN playground_data[coord] # {}

\* The files of the run that did not fail, in the order of the run
NotFailed == SelectSeq(processed, LAMBDA entry : entry.outcome # "error")

\* The store the file loop builds from entries (a file, its outcome and its
\* aggregate), in their order
RECURSIVE RunStore(_, _)
RunStore(store, entries) ==
    IF entries = <<>> THEN store
    ELSE RunStore(StoreAfterFile(store, Head(entries).file, Head(entries).outcome,
                                 Head(entries).results),
                  Tail(entries))

\* C12: a file whose processing fails (no batch size in its name, an
\* unreadable file, a document the aggregation raises on) leaves the store
\* as it was and the loop goes on: at every point of the run the store is
\* the one the run builds from the other files alone, those before and
\* those after the failing ones.
C12_FailingFileLeavesStore ==
    pc \in {"main", "saved"} =>
        playground_data = RunStore(FreshStore(<<>>), NotFailed)

\* a file without batch size and a document that raises, both at a
\* coordinate nothing else stores to, then a file that is inserted
C12_Witness ==
    /\ Len(processed) = 3
    /\ processed[1].outcome = "error"
    /\ processed[1].file.batch_size = NoData
    /\ processed[2].outcome = "error"
    /\ processed[2].file.batch_size # NoData
    /\ processed[2].file.content # NoData
    /\ processed[3].outcome = "stored"
    /\ FileCoord(processed[3].file) # FileCoord(processed[2].file)
    /\ DOMAIN playground_data = {FileCoord(processed[3].file)}
    /\ playground_data[FileCoord(processed[3].file)] = processed[3].results.v
    /\ processed[3].results.v # <<>>

\* Two files of the run store the same optimizer at the same coordinate
Collide(i, j) ==
    /\ processed[i].outcome = "stored"
    /\ processed[j].outcome = "stored"
    /\ FileCoord(processed[i].file) = FileCoord(processed[j].file)
    /\ DOMAIN processed[i].results.v \cap DOMAIN processed[j].results.v # {}

NoCollision == \A i, j \in DOMAIN processed : i # j => ~Collide(i, j)

Orders ==
    {p \in [DOMAIN processed -> DOMAIN processed] :
        \A i, j \in DOMAIN processed : p[i] = p[j] => i = j}

\* C20: when no two files of the run store the same optimizer at the same
\* coordinate, the store is the one every other order of the same files
\* builds (as a mapping: the order of the keys in the saved text is not
\* compared; what a file yields does not depend on its place in the run);
\* an order can only matter when two files collide.
C20_OrderIndependent ==
    (pc \in {"main", "saved"} /\ NoCollision) =>
        \A p \in Orders :
            RunStore(FreshStore(<<>>), [i \in DOMAIN processed |-> processed[p[i]]])
                = playground_data

\* two files store different optimizers at one coordinate and a third
\* file stores at another coordinate
C20_Witness ==
    /\ Len(processed) = 3
    /\ NoCollision
    /\ \A i \in 1..3 : processed[i].outcome = "stored"
    /\ FileCoord(processed[1].file) = FileCoord(processed[2].file)
    /\ FileCoord(processed[3].file) # FileCoord(processed[1].file)
    /\ DOMAIN processed[1].results.v = {"RANDOM"}
    /\ DOMAIN processed[2].results.v = {"BO_GP_EI"}
    /\ DOMAIN playground_data[FileCoord(processed[1].file)] = {"RANDOM", "BO_GP_EI"}

\* C11: a second call of main over the same files in the same order sees,
\* file by file, the outcome and the aggregate of the first call, holds at
\* every point only what the files of this call stored, and saves the store
\* the first call saved (as a mapping: the text written is not compared).
C11_RerunReproducesRun ==
    /\ pc \in {"rerun", "resaved"} =>
          /\ \A i \in DOMAIN processed : processed[i] = first_run.processed[i]
          /\ \A coord \in DOMAIN playground_data :
                /\ \E i \in DOMAIN processed :
                      /\ processed[i].outcome = "stored"
                      /\ FileCoord(processed[i].file) = coord
                /\ \A opt \in DOMAIN playground_data[coord] : Producers(coord, opt) # {}
    /\ pc = "resaved" =>
          /\ processed = first_run.processed
          /\ playground_data = first_run.store

\* the second call has saved after a run of two files that collide on
\* RANDOM at one coordinate with different summaries
C11_Witness ==
    /\ pc = "resaved"
    /\ Len(processed) = 2
    /\ Collide(1, 2)
    /\ processed[1].results.v # processed[2].results.v
    /\ first_run.store # <<>>
    /\ playground_data = first_run.store


(*********************** process_results.py claims ************************)
\* Every value the files of the existing directories hold for `opt`, in the
\* order of the directories and of their files
PooledSteps(opt) ==
    Flatten([d \in DOMAIN htl_dirs |->
               IF htl_dirs[d].exists THEN all_steps_by_opt(htl_dirs[d].files, opt) ELSE <<>>])

PooledNames ==
    UNION {UNION {FileNames(htl_dirs[d].files[i]) : i \in DOMAIN htl_dirs[d].files} :
             d \in {e \in DOMAIN htl_dirs : htl_dirs[e].exists}}

\* main has recalculated the summary (lines 186-197): htl_summary is final
\* from there on, whether or not line 214 raises before it is saved
Recalculated == htl_summary.k = "ok"

\* C14 (as claimed): the final summary of main holds, for each optimizer
\* with a value in some file of either directory, the statistics of the
\* pooled values of all files, and n_trials is the number of those values.
C14_SummaryOverPooledValues ==
    Recalculated =>
        \A opt \in PooledNames :
            PooledSteps(opt) # <<>> =>
                /\ opt \in DOMAIN htl_summary.v
                /\ htl_summary.v[opt].n_trials = Len(PooledSteps(opt))
                /\ htl_summary.v[opt] = StepsStatistics(PooledSteps(opt))


(********************** values averaged at a step *************************)
\* C21 (as claimed): a trial puts at most one value at a step: for every
\* optimizer of a returned result and every step s of 0..max_step, the
\* values averaged at s are no more than the optimizer's non-empty trials,
\* and at max_step they are exactly as many, repeated step indices included.
C21_OneValuePerTrialAndStep ==
    Returned =>
        \A opt \in DOMAIN results.v :
            LET runs == per_optimizer_histories(
                            Get(TournamentResults(data).v, "competitions", EmptyList),
                            argsort_stable)[opt]
                averaged == step_to_values(runs)
            IN /\ \A s \in 0..max_step(runs) : Len(averaged[s]) <= Len(Trials(data, opt))
               /\ Len(averaged[max_step(runs)]) = Len(Trials(data, opt))

=============================================================================
